---- MODULE Spec2Model ----
\* A verification model of PISS (Projects Information Storage System):
\*   - the poll scheduler check_updates / main of src/piss.py,
\*   - the event chores of src/piss/chores.py and src/chores.py,
\*   - the version algebra of src/piss.py.
EXTENDS Integers, Sequences, FiniteSets, TLC

\* ------------------------------------------------------------------ bounds
\* Number of process invocations (cron runs of piss.py) explored.
MaxRuns == 2
\* Wall-clock second at which the first invocation may start.
StartTime == 1000000

\* ------------------------------------------------------- program constants
\* "last_try + 7200 > ?"
RETRY_OK == 7200
\* "last_try + 86400*3 > ?"
RETRY_FAIL == 86400 * 3

\* SQL NULL / Python None for text columns, and for integer columns.
NULL == "<NULL>"
NULLINT == -1

VARIABLES
    pkglist,          \* check_updates: the names abbsdb's SQL_PACKAGE_SRC returns
    clock,            \* int(time.time())
    pc,               \* position of the piss.py process: idle, loop, exited
    runs,             \* invocations started so far
    exitcode,         \* exit status of the last invocation (NULLINT: none yet)
    now,              \* check_updates: now
    delayed,          \* check_updates: delayed
    todo,             \* check_updates: rows of pkglist not yet visited
    upstream_status,  \* committed table upstream_status
    package_upstream, \* committed table package_upstream
    cur_status,       \* upstream_status as seen through the open connection
    ev                \* the last step of check_updates: kind, package, fetch_time, probe result

VARIABLES
    title_regex,      \* FeedChore.title_regex (None in src/chores.py)
    bb_category,      \* BitbucketChore.category
    chore,            \* which chore class the configured chore is
    status,           \* the chore's self.status: ChoreStatus(updated, last_result)
    yielded,          \* the Events the last fetch() yielded, in order
    cev               \* the last fetch: chore, how it ended, fetch_time

VARIABLES
    arg_a, arg_b,     \* version_compare: the arguments a, b
    results,          \* what version_compare returned for (a, b), (b, a), (a, a)
    arg_c,            \* a third version string, for a chain a, b, c
    chain             \* what version_compare returned for (a, b), (b, c), (a, c)

VARIABLES
    call,             \* one call of a string function: its name and arguments
    ret               \* what the call returned (NoRet: not called yet)

VARIABLES
    server,           \* the release-monitoring endpoint: payload shape, number of projects
    sync_pc,          \* position of anitya.check_update: idle, loop, returned, raised
    sync_exc,         \* the exception that left check_update (NULL: none)
    total_items,      \* check_update: total_items
    got_items,        \* check_update: got_items
    page,             \* check_update: page
    retrys,           \* check_update: retrys
    anitya_projects,  \* committed table anitya_projects
    requests,         \* the calls of anitya_api so far: page asked, whether it answered
    abbs_packages,    \* detect_links: the names in the packages table of abbs.db
    anitya_link       \* committed table anitya_link

VARIABLES
    feed_entries,     \* what the feed of the legacy FeedChore serves, newest first
    published,        \* entries the feed's site has published so far
    chore_row,        \* committed row of table chore: last_result
    event_rows,       \* committed table event: rows per feed entry
    legacy_runs       \* runs of run_chores.py so far

schedRest == <<pkglist, pc, runs, exitcode, now, delayed, todo,
               upstream_status, package_upstream, cur_status, ev>>
schedVars == <<clock, schedRest>>

choreVars == <<chore, title_regex, bb_category, status, yielded, cev>>
vcVars == <<arg_a, arg_b, results, arg_c, chain>>
fnVars == <<call, ret>>
syncVars == <<server, sync_pc, sync_exc, total_items, got_items, page, retrys,
              anitya_projects, requests>>
linkVars == <<abbs_packages, anitya_link>>
legacyVars == <<feed_entries, published, chore_row, event_rows, legacy_runs>>

vars == <<schedVars, choreVars, vcVars, fnVars, syncVars, linkVars, legacyVars>>
notSched == <<choreVars, vcVars, fnVars, syncVars, linkVars, legacyVars>>
notChore == <<schedRest, vcVars, fnVars, syncVars, linkVars, legacyVars>>
notVC == <<schedVars, choreVars, fnVars, syncVars, linkVars, legacyVars>>
notFn == <<schedVars, choreVars, vcVars, syncVars, linkVars, legacyVars>>
notSync == <<schedVars, choreVars, vcVars, fnVars, legacyVars>>
notLegacy == <<schedVars, choreVars, vcVars, fnVars, syncVars, linkVars>>

\* ------------------------------------------------------------ the catalog
\* Rows returned by SQL_PACKAGE_SRC: name, srctype, and what of srcurl the
\* classifier looks at (netloc, and whether the file name matches RE_TARBALL).
Catalog ==
    [ curl |-> [srctype |-> "SRCTBL", netloc |-> "curl.se",      tarball |-> TRUE],
      foo  |-> [srctype |-> "SRCTBL", netloc |-> "github.com",   tarball |-> TRUE],
      bar  |-> [srctype |-> "GITSRC", netloc |-> "example.org",  tarball |-> FALSE],
      doc  |-> [srctype |-> NULL,     netloc |-> NULL,           tarball |-> FALSE],
      gem  |-> [srctype |-> "SRCTBL", netloc |-> "rubygems.org", tarball |-> FALSE] ]

Packages == DOMAIN Catalog

\* detect_upstream restricted to the rules the catalog exercises: the upstream
\* type, "None" (no rule matches), or "raise" (RE_TARBALL.match(...) is None
\* and .group(1) raises AttributeError).
detect_upstream(p) ==
    LET row == Catalog[p] IN
    IF row.netloc = "github.com" THEN "github"
    ELSE IF row.netloc = "rubygems.org"
         THEN (IF row.tarball THEN "rubygems" ELSE "raise")
    ELSE IF row.srctype # "SRCTBL" THEN "None"
    ELSE "dirlist"

\* ------------------------------------------------------------- the tables
NoStatus == [present |-> FALSE, updated |-> NULLINT, last_try |-> NULLINT, err |-> NULL]
NoRelease == [present |-> FALSE, type |-> NULL, version |-> NULL]

\* What a probe (UPSTRAM_TYPES[...]) can do: return a Release, return None,
\* or raise an Exception.
Versions == {"1.0", "1.1"}
Exceptions == { [name |-> "HTTPError",  msg |-> "404 Client Error"],
                [name |-> "ValueError", msg |-> "Response too large"] }
Outcomes ==
    [kind : {"release"}, version : Versions] \cup
    {[kind |-> "none"]} \cup
    [kind : {"raise"}, ex : Exceptions]

NoResult == [kind |-> "-"]

\* (variant: the message alone, without the exception's type name)
ExcText_NoName(ex) == ex.msg

\* err = type(ex).__name__ + ': ' + str(ex)
ExcText(ex) == ex.name \o ": " \o ex.msg

\* err LIKE 'HTTPError%'
LikeHTTPError(err) ==
    /\ err # NULL
    /\ Len(err) >= 9
    /\ SubSeq(err, 1, 9) = "HTTPError"

\* (variant: the clause "OR last_try + 7200 > ?" left out)
IsDelayed_NoOkClause(row, t) ==
    /\ row.present
    /\ row.last_try # NULLINT
    /\ row.last_try + RETRY_FAIL > t
    /\ (row.err = "not found" \/ LikeHTTPError(row.err))

\* (variant: failures held back for one day instead of three)
IsDelayed_OneDay(row, t) ==
    /\ row.present
    /\ row.last_try # NULLINT
    /\ \/ /\ row.last_try + 86400 > t
          /\ (row.err = "not found" \/ LikeHTTPError(row.err))
       \/ row.last_try + RETRY_OK > t

\* The WHERE clause of the delayed query, for one row of upstream_status.
\* A NULL last_try or err makes the comparison NULL, which selects nothing.
IsDelayed(row, t) ==
    /\ row.present
    /\ row.last_try # NULLINT
    /\ \/ /\ row.last_try + RETRY_FAIL > t
          /\ (row.err = "not found" \/ LikeHTTPError(row.err))
       \/ row.last_try + RETRY_OK > t

\* INSERT OR IGNORE INTO upstream_status(package) VALUES (?)
InsertOrIgnore(tbl, p) ==
    IF tbl[p].present THEN tbl
    ELSE [tbl EXCEPT ![p] = [NoStatus EXCEPT !.present = TRUE]]

\* (variant: the statement also sets updated)
UpdateTry_TouchesUpdated(tbl, p, t, err) ==
    [tbl EXCEPT ![p].last_try = t, ![p].err = err, ![p].updated = t]

\* UPDATE upstream_status SET last_try=?, err=? WHERE package=?
UpdateTry(tbl, p, t, err) ==
    [tbl EXCEPT ![p].last_try = t, ![p].err = err]

\* UPDATE upstream_status SET last_try=? AND err=? WHERE package=?
\* SQL reads this as last_try = (? AND (err = ?)): a three-valued boolean.
UpdateTryAnd(tbl, p, t, err) ==
    LET old == tbl[p].err
        val == IF t = 0 THEN 0
               ELSE IF old = NULL THEN NULLINT
               ELSE IF old = err THEN 1 ELSE 0
    IN [tbl EXCEPT ![p].last_try = val]

\* (variant: the statement is missing)
UpdateUpdated_Missing(tbl, p, t) == tbl

\* UPDATE upstream_status SET updated=? WHERE package=?
UpdateUpdated(tbl, p, t) == [tbl EXCEPT ![p].updated = t]

\* (variant: the statement is missing)
ReplaceRelease_Missing(tbl, p, release) == tbl

\* REPLACE INTO package_upstream VALUES (?,?,?,?,?)
ReplaceRelease(tbl, p, release) ==
    [tbl EXCEPT ![p] = [present |-> TRUE, type |-> release.type,
                        version |-> release.version]]

\* ----------------------------------------------------------- check_updates
\* Seconds between the start of one invocation's loop and the next invocation.
Gaps == {RETRY_OK - 1, RETRY_OK, 2 * 86400, RETRY_FAIL, 4 * 86400}

\* A new invocation: main() calls check_updates, which reads `now` and
\* computes `delayed` once.
StartRun(d) ==
    /\ pc # "loop"
    /\ runs < MaxRuns
    /\ runs' = runs + 1
    /\ clock' = clock + d
    /\ now' = clock'
    /\ delayed' = {p \in Packages : IsDelayed(upstream_status[p], now')}
    /\ todo' = pkglist
    /\ pc' = "loop"
    /\ cur_status' = upstream_status
    /\ ev' = [kind |-> "start", pkg |-> NULL, at |-> now', res |-> NoResult]
    /\ exitcode' = NULLINT
    /\ UNCHANGED <<pkglist, upstream_status, package_upstream>>
    /\ UNCHANGED notSched

\* "if not srctype or name in delayed: continue"
Skip(p) ==
    /\ pc = "loop"
    /\ p \in todo
    /\ (Catalog[p].srctype = NULL \/ p \in delayed)
    /\ todo' = todo \ {p}
    /\ ev' = [kind |-> "skip", pkg |-> p, at |-> clock, res |-> NoResult]
    /\ UNCHANGED <<pkglist, clock, pc, runs, exitcode, now, delayed,
                   upstream_status, package_upstream, cur_status>>
    /\ UNCHANGED notSched

\* "if not upstream": two statements on the cursor and `continue`, no commit.
CantDetect(p) ==
    /\ pc = "loop"
    /\ p \in todo
    /\ Catalog[p].srctype # NULL
    /\ p \notin delayed
    /\ detect_upstream(p) = "None"
    /\ LET fetch_time == clock
       IN /\ cur_status' = UpdateTryAnd(InsertOrIgnore(cur_status, p), p,
                                        fetch_time, "can't detect upstream")
          /\ ev' = [kind |-> "cantdetect", pkg |-> p, at |-> fetch_time, res |-> NoResult]
    /\ todo' = todo \ {p}
    /\ UNCHANGED <<pkglist, clock, pc, runs, exitcode, now, delayed, upstream_status,
                   package_upstream>>
    /\ UNCHANGED notSched

\* detect_upstream raises outside the try block: the exception leaves
\* check_updates and main, the interpreter prints it and exits with status 1.
\* The connection is dropped with its open transaction.
DetectRaises(p) ==
    /\ pc = "loop"
    /\ p \in todo
    /\ Catalog[p].srctype # NULL
    /\ p \notin delayed
    /\ detect_upstream(p) = "raise"
    /\ pc' = "exited"
    /\ exitcode' = 1
    /\ cur_status' = upstream_status
    /\ ev' = [kind |-> "abort", pkg |-> p, at |-> clock, res |-> NoResult]
    /\ UNCHANGED <<pkglist, clock, runs, now, delayed, todo, upstream_status, package_upstream>>
    /\ UNCHANGED notSched

\* One probed package: the try block, the status write, the release write
\* and db.commit().
Poll(p, o) ==
    /\ pc = "loop"
    /\ p \in todo
    /\ Catalog[p].srctype # NULL
    /\ p \notin delayed
    /\ detect_upstream(p) \notin {"None", "raise"}
    /\ LET fetch_time == clock
           release == [type |-> detect_upstream(p), version |-> o.version]
           err == CASE o.kind = "release" -> NULL
                    [] o.kind = "none"    -> "not found"
                    [] o.kind = "raise"   -> ExcText(o.ex)
           s1 == UpdateTry(InsertOrIgnore(cur_status, p), p, fetch_time, err)
           s2 == IF err = NULL THEN UpdateUpdated(s1, p, fetch_time) ELSE s1
           u2 == IF err = NULL
                 THEN ReplaceRelease(package_upstream, p, release)
                 ELSE package_upstream
       IN /\ cur_status' = s2
          /\ upstream_status' = s2
          /\ package_upstream' = u2
          /\ ev' = [kind |-> o.kind, pkg |-> p, at |-> fetch_time, res |-> o]
    /\ todo' = todo \ {p}
    /\ UNCHANGED <<pkglist, clock, pc, runs, exitcode, now, delayed>>
    /\ UNCHANGED notSched

\* SIGINT: KeyboardInterrupt is not an Exception, nothing in check_updates or
\* main catches it. The process ends with a traceback (status 1, or killed by
\* the re-raised signal, 130); what was not committed is rolled back.
\* This is also the state after an interrupt between two statements of one
\* poll: its writes are in the open transaction and go with it.
Interrupt(code) ==
    /\ pc = "loop"
    /\ pc' = "exited"
    /\ exitcode' = code
    /\ cur_status' = upstream_status
    /\ ev' = [kind |-> "interrupt", pkg |-> NULL, at |-> clock, res |-> NoResult]
    /\ UNCHANGED <<pkglist, clock, runs, now, delayed, todo, upstream_status, package_upstream>>
    /\ UNCHANGED notSched

\* The loop is over: PRAGMA optimize, return to main, which returns 0.
\* Whether the statements still pending on the cursor are committed depends on
\* the sqlite3 module (it committed before non-DML statements up to Python 3.5
\* and does not since 3.6).
EndRun(implicit_commit) ==
    /\ pc = "loop"
    /\ todo = {}
    /\ pc' = "exited"
    /\ exitcode' = 0
    /\ upstream_status' = IF implicit_commit THEN cur_status ELSE upstream_status
    /\ cur_status' = upstream_status'
    /\ ev' = [kind |-> "end", pkg |-> NULL, at |-> clock, res |-> NoResult]
    /\ UNCHANGED <<pkglist, clock, runs, now, delayed, todo, package_upstream>>
    /\ UNCHANGED notSched

\* The abbs database either holds the package whose URL the classifier chokes
\* on, or it does not.
\* ================================================================ chores
\* src/piss/chores.py (and the older src/chores.py): one fetch() of a chore
\* is one step; the caller runs the generator to its end. The chores share
\* nothing but the clock, so a behaviour follows one configured chore.

\* Number of fetches explored.
MaxFetches == 3

Chores == {"feed", "bitbucket", "html", "dirlist"}

\* ChoreStatus.last_result: None, a plain string (an ETag), or JSON text.
NoneResult == [t |-> "None"]
Text(s) == [t |-> "str", s |-> s]
Json(d) == [t |-> "json", d |-> d]

\* STATUS_NONE = ChoreStatus(0, None)
STATUS_NONE == [updated |-> 0, last_result |-> NoneResult]

\* A Python dict with string keys is a function on the set of its keys.
EmptyDict == <<>>
\* dict.get(k)
Get(d, k) == IF k \in DOMAIN d THEN d[k] ELSE NULL
\* lastupd.get('entries'); None and [] are both falsy and fetch() only tests
\* `not old_entries` before it compares, so None reads as the empty list.
GetEntries(d) == IF "entries" \in DOMAIN d THEN d["entries"] ELSE <<>>
\* (variant: the assignment is lost)
Put_Lost(d, k, v) == d

\* d[k] = v
Put(d, k, v) == [x \in (DOMAIN d) \cup {k} |-> IF x = k THEN v ELSE d[x]]

\* A FileEntry is a tuple; json.dumps writes tuples as arrays, json.loads
\* reads arrays as lists, and in Python a list never equals a tuple.
FileEntry(name) == [py |-> "tuple", name |-> name]
Str(text) == [py |-> "str", name |-> text]
AsList(x) == [py |-> "list", name |-> x.name]
\* deep_tuple
deep_tuple(x) == [py |-> "tuple", name |-> x.name]

\* json.dumps(d): the entries that are tuples become arrays.
dumps(d) ==
    IF "entries" \in DOMAIN d
    THEN [d EXCEPT !["entries"] =
            [i \in DOMAIN d["entries"] |->
                IF d["entries"][i].py = "tuple" THEN AsList(d["entries"][i])
                ELSE d["entries"][i]]]
    ELSE d

\* ExtendedChoreStatus.load: json.loads(self.last_result or '{}')
load(self) ==
    IF self.last_result.t = "json" THEN self.last_result.d ELSE EmptyDict

\* ExtendedChoreStatus.save
save(update_time, d) == [updated |-> update_time, last_result |-> Json(dumps(d))]

\* text contains pat (re.search of a literal pattern)
Search(pat, text) ==
    \E i \in 1..(Len(text) - Len(pat) + 1) : SubSeq(text, i, i + Len(pat) - 1) = pat

Event(name, category, time, title) ==
    [chore |-> name, category |-> category, time |-> time, title |-> title]

\* What the servers can answer.
ETags == {"e1", "e2"}
EntryTimes == {StartTime, StartTime + 1, StartTime + 2}
Titles == {"foo 1.0 released", "blog"}
FeedItem == [time : EntryTimes, title : Titles]
Names == {"a-1.0.tar.gz", "a-1.1.tar.gz"}
Listings == {<<>>, <<"a-1.0.tar.gz">>, <<"a-1.0.tar.gz", "a-1.1.tar.gz">>,
             <<"a-1.1.tar.gz">>}
TagTexts == {<<>>, <<"nav">>, <<"v1">>, <<"nav", "v1", "v2">>, <<"v2", "v1">>}
SeqUpTo2(S) == {<<>>} \cup {<<x>> : x \in S} \cup {<<x, y>> : x \in S, y \in S}

\* (variant: the first poll is not special-cased)
IsNew_NoFirstPoll(last_updated, evt_time) == evt_time > last_updated

\* "if last_updated and evt_time > last_updated"
IsNew(last_updated, evt_time) == last_updated # 0 /\ evt_time > last_updated

\* ---- FeedChore.fetch
FeedFetch(feed) ==
    LET st == status
        fetch_time == clock + 1
        last_updated == st.updated
        keep(e) == /\ IsNew(last_updated, e.time)
                   /\ (title_regex = NULL \/ Search(title_regex, e.title))
        ev1(e) == Event("feed", "news", e.time, e.title)
    IN /\ chore = "feed"
       /\ clock < StartTime + MaxFetches
       /\ clock' = fetch_time
       /\ status' = [updated |-> fetch_time,
                     last_result |-> IF feed.etag = NULL THEN NoneResult
                                     ELSE Text(feed.etag)]
       /\ yielded' = LET new == SelectSeq(feed.entries, keep)
                     IN [i \in DOMAIN new |-> ev1(new[i])]
       /\ cev' = [chore |-> "feed", kind |-> "parsed", at |-> fetch_time,
                  last_updated |-> last_updated, entries |-> feed.entries]
       /\ UNCHANGED <<chore, title_regex, bb_category>>
       /\ UNCHANGED notChore

\* ---- BitbucketChore.fetch
\* "if req.status_code == 304: self.status = ChoreStatus(fetch_time, old_etag)"
BitbucketNotModified(st, fetch_time) ==
    [updated |-> fetch_time, last_result |-> st.last_result]

Max(S) == CHOOSE x \in S : \A y \in S : y <= x

BitbucketFetch(req) ==
    LET st == status
        last_updated == st.updated
        old_etag == st.last_result
        fetch_time == clock + 1
        conditional == old_etag.t = "str"
        new == SelectSeq(req.values, LAMBDA it : IsNew(last_updated, it.time))
        latest == Max({0} \cup {req.values[i].time : i \in DOMAIN req.values})
        evtag(it) == Event("bitbucket", "tag", it.time, it.name)
    IN /\ chore = "bitbucket"
       /\ clock < StartTime + MaxFetches
       /\ clock' = fetch_time
       /\ (req.status_code = 304 => conditional)
       /\ IF conditional /\ req.status_code = 304
          THEN /\ status' = BitbucketNotModified(st, fetch_time)
               /\ yielded' = <<>>
               /\ cev' = [chore |-> "bitbucket", kind |-> "304", at |-> fetch_time,
                          last_updated |-> last_updated, entries |-> <<>>]
          ELSE IF req.status_code >= 400
          THEN \* raise_for_status()
               /\ status' = status
               /\ yielded' = <<>>
               /\ cev' = [chore |-> "bitbucket", kind |-> "raise", at |-> fetch_time,
                          last_updated |-> last_updated, entries |-> <<>>]
          ELSE /\ status' = [updated |-> fetch_time,
                             last_result |-> IF req.etag = NULL THEN NoneResult
                                             ELSE Text(req.etag)]
               /\ yielded' =
                     IF bb_category = "release"
                     THEN (IF new = <<>> THEN <<>>
                           ELSE <<Event("bitbucket", "release", latest, new[1].name)>>)
                     ELSE [i \in DOMAIN new |-> evtag(new[i])]
               /\ cev' = [chore |-> "bitbucket", kind |-> "parsed", at |-> fetch_time,
                          last_updated |-> last_updated, entries |-> req.values]
       /\ UNCHANGED <<chore, title_regex, bb_category>>
       /\ UNCHANGED notChore

\* ---- HTMLSelectorChore.fetch and DirListingChore.fetch
\* (variant: a 304 leaves the status as it was)
NotModified_Stale(st, fetch_time) == st

\* "if req.status_code == 304: self.status = self.status.save(fetch_time, lastupd)"
NotModified(st, fetch_time) == save(fetch_time, load(st))

\* The modelled html chore is configured with regex '^(v.*)': the entries are
\* the texts of the selected tags that begin with "v".
HtmlEntries(tags) ==
    LET matched == SelectSeq(tags, LAMBDA t : SubSeq(t, 1, 1) = "v")
    IN [i \in DOMAIN matched |-> Str(matched[i])]

HTMLSelectorFetch(req) ==
    LET st == status
        lastupd == load(st)
        old_entries == GetEntries(lastupd)
        old_etag == Get(lastupd, "etag")
        fetch_time == clock + 1
        conditional == old_etag # NULL
        lastupd1 == Put(lastupd, "etag", req.etag)
        entries == HtmlEntries(req.body)
        lastupd2 == Put(lastupd1, "entries", entries)
        done(kind, ents) ==
            cev' = [chore |-> "html", kind |-> kind, at |-> fetch_time,
                    last_updated |-> st.updated, entries |-> ents]
    IN /\ chore = "html"
       /\ clock < StartTime + MaxFetches
       /\ clock' = fetch_time
       /\ (req.status_code = 304 => conditional)
       /\ IF conditional /\ req.status_code = 304
          THEN /\ status' = NotModified(st, fetch_time)
               /\ yielded' = <<>>
               /\ done("304", <<>>)
          ELSE IF req.status_code >= 400
          THEN /\ status' = status
               /\ yielded' = <<>>
               /\ done("raise", <<>>)
          ELSE IF req.body = <<>> \/ entries = <<>>
          THEN \* "selected nothing" / "got nothing": return before any save
               /\ status' = status
               /\ yielded' = <<>>
               /\ done("nothing", entries)
          ELSE /\ status' = save(fetch_time, lastupd2)
               /\ yielded' = IF old_entries = <<>> \/ entries = old_entries
                             THEN <<>>
                             ELSE <<Event("html", "file", fetch_time, "diff")>>
               /\ done("parsed", entries)
       /\ UNCHANGED <<chore, title_regex, bb_category>>
       /\ UNCHANGED notChore

DirListingFetch(req) ==
    LET st == status
        lastupd == load(st)
        old_etag == Get(lastupd, "etag")
        fetch_time == clock + 1
        conditional == old_etag # NULL
        lastupd1 == Put(lastupd, "etag", req.etag)
        \* parse_listing(soup)
        entries == [i \in DOMAIN req.body |-> FileEntry(req.body[i])]
        old_entries == [i \in DOMAIN GetEntries(lastupd) |->
                           deep_tuple(GetEntries(lastupd)[i])]
        lastupd2 == Put(lastupd1, "entries", entries)
        old_entries_set == {old_entries[i] : i \in DOMAIN old_entries}
        messages == SelectSeq(entries, LAMBDA item : item \notin old_entries_set)
        done(kind, ents) ==
            cev' = [chore |-> "dirlist", kind |-> kind, at |-> fetch_time,
                    last_updated |-> st.updated, entries |-> ents]
    IN /\ chore = "dirlist"
       /\ clock < StartTime + MaxFetches
       /\ clock' = fetch_time
       /\ (req.status_code = 304 => conditional)
       /\ IF conditional /\ req.status_code = 304
          THEN /\ status' = NotModified(st, fetch_time)
               /\ yielded' = <<>>
               /\ done("304", <<>>)
          ELSE IF req.status_code >= 400
          THEN /\ status' = status
               /\ yielded' = <<>>
               /\ done("raise", <<>>)
          ELSE IF entries = <<>>
          THEN /\ status' = status
               /\ yielded' = <<>>
               /\ done("nothing", <<>>)
          ELSE /\ status' = save(fetch_time, lastupd2)
               /\ yielded' =
                     IF old_entries = <<>> \/ entries = old_entries
                        \/ messages = <<>>
                     THEN <<>>
                     ELSE <<Event("dirlist", "file", fetch_time, messages[1].name)>>
               /\ done("parsed", req.body)
       /\ UNCHANGED <<chore, title_regex, bb_category>>
       /\ UNCHANGED notChore

StatusCodes == {200, 304, 404}
HttpAnswers(Bodies) == [status_code : StatusCodes, etag : ETags \cup {NULL}, body : Bodies]

\* ======================================================= version algebra
\* src/piss.py: version_compare. A version string is a sequence of
\* one-character strings.

\* Longest version string explored.
MaxVerLen == 3

VerChars == {"0", "1", "a", ".", "~"}
Digits == {"0", "1", "2", "3", "4", "5", "6", "7", "8", "9"}
LOWERCASE == "abcdefghijklmnopqrstuvwxyz"
UPPERCASE == "ABCDEFGHIJKLMNOPQRSTUVWXYZ"
Letters ==
    {SubSeq(LOWERCASE, i, i) : i \in 1..26} \cup {SubSeq(UPPERCASE, i, i) : i \in 1..26}

\* The ASCII characters from "+" (43) to "_" (95), in code order; the lower
\* case letters start at 97.
ASCII_FROM_PLUS == "+,-./0123456789:;<=>?@ABCDEFGHIJKLMNOPQRSTUVWXYZ[\\]^_"

\* s.index(c) + 1
IndexIn(s, c) == CHOOSE i \in 1..Len(s) : SubSeq(s, i, i) = c

\* ord(x)
Ord(x) ==
    CASE x = "-" -> 45
      [] x = "." -> 46
      [] x = "0" -> 48
      [] x = "1" -> 49
      [] x = "2" -> 50
      [] x = "a" -> 97
      [] x = "c" -> 99
      [] x = "r" -> 114
      [] x = "~" -> 126
      [] OTHER -> IF \E i \in 1..26 : SubSeq(LOWERCASE, i, i) = x
                  THEN 96 + IndexIn(LOWERCASE, x)
                  ELSE 42 + IndexIn(ASCII_FROM_PLUS, x)

\* int(x) for one digit
DigitVal(x) == Ord(x) - 48

RECURSIVE SeqsUpTo(_, _)
SeqsUpTo(S, n) ==
    IF n = 0 THEN {<<>>}
    ELSE LET shorter == SeqsUpTo(S, n - 1)
         IN shorter \cup {Append(s, x) : s \in {t \in shorter : Len(t) = n - 1}, x \in S}

VerStrings == SeqsUpTo(VerChars, MaxVerLen)

\* The version strings the documentation gives as examples.
Examples == {<<"1", ".", "0", "~", "r", "c", "1">>, <<"1", ".", "0">>,
             <<"1", ".", "1", "0">>, <<"1", ".", "2">>,
             <<"1", ".", "0", "-", "1">>}
VerInputs == VerStrings \cup Examples

\* The strings chains of three are drawn from.
MaxChainLen == 2
ChainStrings == SeqsUpTo(VerChars, MaxChainLen)

\* cmp = lambda a, b: ((a > b) - (a < b)), on integers
cmp(a, b) == IF a < b THEN -1 ELSE IF a > b THEN 1 ELSE 0

\* cmp on str: code point by code point, a proper prefix is smaller
RECURSIVE cmp_str(_, _)
cmp_str(a, b) ==
    IF a = <<>> /\ b = <<>> THEN 0
    ELSE IF a = <<>> THEN -1
    ELSE IF b = <<>> THEN 1
    ELSE IF Ord(Head(a)) # Ord(Head(b)) THEN cmp(Ord(Head(a)), Ord(Head(b)))
    ELSE cmp_str(Tail(a), Tail(b))

\* (variant: a digit run counts as its first digit, as a text comparison would)
int_FirstDigit(a) == IF a = <<>> THEN 0 ELSE DigitVal(a[1])

\* int(a) of a digit run (leading zeros allowed)
RECURSIVE int(_)
int(a) == IF a = <<>> THEN 0 ELSE 10 * int(SubSeq(a, 1, Len(a) - 1)) + DigitVal(a[Len(a)])

\* _order(x)
order(x) ==
    IF x = "~" THEN -1
    ELSE IF x \in Digits THEN DigitVal(x) + 1
    ELSE IF x \in Letters THEN Ord(x)
    ELSE Ord(x) + 256

\* (variant: the loop returns on the first position, equal or not)
RECURSIVE version_cmp_string_Biased(_, _)
version_cmp_string_Biased(va, vb) ==
    IF va = <<>> /\ vb = <<>> THEN 0
    ELSE LET a == IF va = <<>> THEN 0 ELSE order(Head(va))
             b == IF vb = <<>> THEN 0 ELSE order(Head(vb))
         IN IF a <= b THEN -1 ELSE 1

\* _version_cmp_string(va, vb)
RECURSIVE version_cmp_string(_, _)
version_cmp_string(va, vb) ==
    IF va = <<>> /\ vb = <<>> THEN 0
    ELSE LET a == IF va = <<>> THEN 0 ELSE order(Head(va))
             b == IF vb = <<>> THEN 0 ELSE order(Head(vb))
         IN IF a < b THEN -1
            ELSE IF a > b THEN 1
            ELSE version_cmp_string(IF va = <<>> THEN va ELSE Tail(va),
                                    IF vb = <<>> THEN vb ELSE Tail(vb))

\* RE_ALL_DIGITS_OR_NOT.findall(v): the maximal runs of digits and of
\* non-digits, in order.
RECURSIVE findall_runs(_)
findall_runs(v) ==
    IF v = <<>> THEN <<>>
    ELSE LET isd == Head(v) \in Digits
             same(i) == \A j \in 1..i : (v[j] \in Digits) = isd
             n == CHOOSE i \in 1..Len(v) :
                     same(i) /\ (i = Len(v) \/ ~same(i + 1))
         IN <<SubSeq(v, 1, n)>> \o findall_runs(SubSeq(v, n + 1, Len(v)))

\* RE_DIGITS.match(a)
digits_match(a) == a # <<>> /\ Head(a) \in Digits

\* (variant: "while la and lb", the loop stops at the end of the shorter list)
RECURSIVE version_cmp_runs_Truncated(_, _)
version_cmp_runs_Truncated(la, lb) ==
    IF la = <<>> \/ lb = <<>> THEN 0
    ELSE LET a == Head(la)
             b == Head(lb)
             rest == version_cmp_runs_Truncated(Tail(la), Tail(lb))
         IN IF digits_match(a) /\ digits_match(b)
            THEN (IF int(a) < int(b) THEN -1
                  ELSE IF int(a) > int(b) THEN 1
                  ELSE rest)
            ELSE LET res == version_cmp_string(a, b)
                 IN IF res # 0 THEN res ELSE rest

\* the loop of _version_cmp_part over the two run lists
RECURSIVE version_cmp_runs(_, _)
version_cmp_runs(la, lb) ==
    IF la = <<>> /\ lb = <<>> THEN 0
    ELSE LET a == IF la = <<>> THEN <<"0">> ELSE Head(la)
             b == IF lb = <<>> THEN <<"0">> ELSE Head(lb)
             rest == version_cmp_runs(IF la = <<>> THEN la ELSE Tail(la),
                                      IF lb = <<>> THEN lb ELSE Tail(lb))
         IN IF digits_match(a) /\ digits_match(b)
            THEN (IF int(a) < int(b) THEN -1
                  ELSE IF int(a) > int(b) THEN 1
                  ELSE rest)
            ELSE LET res == version_cmp_string(a, b)
                 IN IF res # 0 THEN res ELSE rest

\* _version_cmp_part(va, vb)
version_cmp_part(va, vb) == version_cmp_runs(findall_runs(va), findall_runs(vb))

\* version_compare(a, b): _version_cmp_part(a, b) or cmp(a, b)
version_compare(a, b) ==
    LET part == version_cmp_part(a, b)
    IN IF part # 0 THEN part ELSE cmp_str(a, b)

\* One call each of version_compare(a, b), (b, a) and (a, a).
Compare ==
    /\ results = <<>>
    /\ results' = <<version_compare(arg_a, arg_b), version_compare(arg_b, arg_a),
                    version_compare(arg_a, arg_a)>>
    /\ UNCHANGED <<arg_a, arg_b, arg_c, chain>>
    /\ UNCHANGED notVC

\* The strings version_compare places at or after a (the function is pure:
\* each set is computed once).
NotBefore ==
    [a \in ChainStrings |-> {b \in ChainStrings : version_compare(a, b) <= 0}]

\* sorted(key=version_compare_key) relies on a <= b and b <= c placing a
\* before c: one call each of version_compare(a, b), (b, c) and (a, c) for
\* b, c with a <= b <= c.
CompareChain(b, c) ==
    /\ chain = <<>>
    /\ arg_b' = b
    /\ arg_c' = c
    /\ chain' = <<version_compare(arg_a, b), version_compare(b, c),
                  version_compare(arg_a, c)>>
    /\ UNCHANGED <<arg_a, results>>
    /\ UNCHANGED notVC

\* ================================================================ strings
\* Python str operations, on TLA+ strings.
StartsWith(s, pre) == Len(pre) <= Len(s) /\ SubSeq(s, 1, Len(pre)) = pre
EndsWith(s, suf) == Len(suf) <= Len(s) /\ SubSeq(s, Len(s) - Len(suf) + 1, Len(s)) = suf
Drop(s, n) == SubSeq(s, n + 1, Len(s))
\* s[i:i+1], counting from 1: empty past the end
CharAt(s, i) == IF 1 <= i /\ i <= Len(s) THEN SubSeq(s, i, i) ELSE ""
Contains(s, sub) == \E i \in 1..(Len(s) - Len(sub) + 1) : SubSeq(s, i, i + Len(sub) - 1) = sub

\* s.replace(old, new) for a one-character old
RECURSIVE ReplaceChar(_, _, _)
ReplaceChar(s, old, new) ==
    IF s = "" THEN ""
    ELSE (IF CharAt(s, 1) = old THEN new ELSE CharAt(s, 1))
         \o ReplaceChar(Drop(s, 1), old, new)

\* str.lower(), one character
LowerChar(c) ==
    IF \E i \in 1..26 : SubSeq(UPPERCASE, i, i) = c
    THEN SubSeq(LOWERCASE, IndexIn(UPPERCASE, c), IndexIn(UPPERCASE, c))
    ELSE c

RECURSIVE Lower(_)
Lower(s) == IF s = "" THEN "" ELSE LowerChar(CharAt(s, 1)) \o Lower(Drop(s, 1))

\* The strings of length <= n over the one-character strings in S.
RECURSIVE StrsUpTo(_, _)
StrsUpTo(S, n) ==
    IF n = 0 THEN {""}
    ELSE LET shorter == StrsUpTo(S, n - 1)
         IN shorter \cup {s \o x : s \in {t \in shorter : Len(t) = n - 1}, x \in S}

NoCall == [fn |-> NULL]
NoRet == [kind |-> "not called"]

\* ====================================================== Release.__new__
\* RE_VER_PREFIX = '^(?:version|ver|v|releases|release|rel|r)[._/-]?', re.I:
\* the alternatives in the order the regex tries them.
VER_PREFIX_WORDS == <<"version", "ver", "v", "releases", "release", "rel", "r">>

\* RE_VER_PREFIX.sub('', version): the pattern is anchored, so at most the
\* one match at the start is removed.
VerPrefixSub(version) ==
    LET low == Lower(version)
        hits == {i \in DOMAIN VER_PREFIX_WORDS : StartsWith(low, VER_PREFIX_WORDS[i])}
    IN IF hits = {} THEN version
       ELSE LET i == CHOOSE k \in hits : \A j \in hits : k <= j
                n == Len(VER_PREFIX_WORDS[i])
            IN IF CharAt(Drop(version, n), 1) \in {".", "_", "/", "-"}
               THEN Drop(version, n + 1)
               ELSE Drop(version, n)

\* re.sub('^' + re.escape(package) + '[._-]', '', ver)
PackagePrefixSub(package, ver) ==
    IF StartsWith(ver, package) /\ CharAt(Drop(ver, Len(package)), 1) \in {".", "_", "-"}
    THEN Drop(ver, Len(package) + 1)
    ELSE ver

\* "if '.' not in ver: ver = ver.replace('_', '.')"
UnderscoreToDot(ver) ==
    IF Contains(ver, ".") THEN ver ELSE ReplaceChar(ver, "_", ".")

\* Release.__new__: the version field of the Release it builds
ReleaseVersion(package, version) ==
    UnderscoreToDot(PackagePrefixSub(package, VerPrefixSub(version)))

MaxRawLen == 4
RawChars == {"v", "V", "1", ".", "_", "-", "f"}
RawVersions ==
    StrsUpTo(RawChars, MaxRawLen)
    \cup {"foo-1.0", "foo-v1.0", "release-1.0", "version1.0", "1_0_2"}

\* Release(package, ..., version), and Release(package, ..., <its version>)
ReleaseNew ==
    /\ call.fn = "Release"
    /\ ret = NoRet
    /\ LET rel == ReleaseVersion(call.package, call.version)
       IN ret' = [kind |-> "versions", once |-> rel,
                  twice |-> ReleaseVersion(call.package, rel)]
    /\ UNCHANGED call
    /\ UNCHANGED notFn

\* ======================================================= tarball_maxver
\* list(s)
Chars(s) == [i \in 1..Len(s) |-> SubSeq(s, i, i)]

Min(S) == CHOOSE x \in S : \A y \in S : x <= y

NoMatch == [matched |-> FALSE]

\* The last group of RE_TARBALL, re.I:
\* (\.tar\.xz|\.tar\.bz2|\.tar\.gz|\.t.z|\.zip|\.gem)
IsTarballExt(r) ==
    LET low == Lower(r)
    IN \/ low \in {".tar.xz", ".tar.bz2", ".tar.gz", ".zip", ".gem"}
       \/ (Len(low) = 4 /\ SubSeq(low, 1, 2) = ".t" /\ SubSeq(low, 4, 4) = "z")

\* (?:[._-](?:orig|src|source))?(<ext>)$ on the rest r of a file name
TarballTail(r) ==
    \/ IsTarballExt(r)
    \/ \E w \in {"orig", "src", "source"} :
          /\ Len(r) > Len(w)
          /\ CharAt(r, 1) \in {".", "_", "-"}
          /\ Lower(SubSeq(r, 2, Len(w) + 1)) = w
          /\ IsTarballExt(Drop(r, Len(w) + 1))

\* RE_TARBALL with group 1 = f[1..g]: [._-] follows, then [vr]? (greedy),
\* then group 2 from a digit on, as short as the tail allows (.*? is lazy).
TarballAt(f, g) ==
    LET d == IF Lower(CharAt(f, g + 2)) \in {"v", "r"} THEN g + 3 ELSE g + 2
        ends == {e \in d..Len(f) : TarballTail(Drop(f, e))}
    IN IF CharAt(f, g + 1) \in {".", "_", "-"} /\ CharAt(f, d) \in Digits /\ ends # {}
       THEN [matched |-> TRUE, prefix |-> SubSeq(f, 1, g),
             ver |-> SubSeq(f, d, Min(ends))]
       ELSE NoMatch

\* RE_TARBALL.match(filename): group 1 (.+? is lazy: the shortest prefix that
\* lets the rest match) and group 2
RE_TARBALL_match(f) ==
    LET gs == {g \in 1..Len(f) : TarballAt(f, g).matched}
    IN IF gs = {} THEN NoMatch ELSE TarballAt(f, Min(gs))

\* RE_BINARY is compiled from a literal that is not a raw string: in it
\* 'win\b' is "win" followed by the backspace character (code 8), not "win"
\* at a word boundary. 'i.86' has a wildcard.
ANYCHAR == "<any>"
BACKSPACE == "<08>"
BINARY_WORDS ==
    {Chars("linux32"), Chars("linux64"), Chars("windows"), Chars("win32"),
     Chars("win64"), Chars("win") \o <<BACKSPACE>>, Chars("w32"), Chars("w64"),
     Chars("mingw"), Chars("msvc"), Chars("mac"), Chars("osx"), Chars("darwin"),
     Chars("ios"), Chars("x86"), <<"i", ANYCHAR, "8", "6">>, Chars("x64"),
     Chars("amd64"), Chars("arm64"), Chars("armhf"), Chars("armel"),
     Chars("mips"), Chars("ppc"), Chars("powerpc"), Chars("s390x"),
     Chars("portable"), Chars("dbgsym")}

\* the pattern word pat matches f from position i on (re.I)
PatAt(f, i, pat) ==
    \A k \in DOMAIN pat :
       LET c == LowerChar(CharAt(f, i + k - 1))
       IN c # "" /\ (pat[k] = ANYCHAR \/ pat[k] = c)

\* RE_BINARY.search(filename)
RE_BINARY_search(f) ==
    \E i \in 1..Len(f) :
       /\ CharAt(f, i) \in {".", "_", "+", "-"}
       /\ \E w \in BINARY_WORDS : PatAt(f, i + 1, w)

\* RE_CHARCLASS = ([A-Za-z]+|\d+|[._+~-]+); what lies between its matches is
\* a piece of its own
FormatClass(c) ==
    IF c \in Digits THEN "digit"
    ELSE IF c \in Letters THEN "alpha"
    ELSE IF c \in {".", "_", "+", "~", "-"} THEN "sep"
    ELSE "other"

\* the length of the run of FormatClass cls that s starts with
RECURSIVE ClassRun(_, _)
ClassRun(s, cls) ==
    IF s = "" \/ FormatClass(CharAt(s, 1)) # cls THEN 0
    ELSE 1 + ClassRun(Drop(s, 1), cls)

\* the loop of version_format: one pattern piece for each piece of the split
RECURSIVE format_pieces(_)
format_pieces(version) ==
    IF version = "" THEN <<>>
    ELSE LET cls == FormatClass(CharAt(version, 1))
             n == ClassRun(version, cls)
             piece == IF cls = "digit" THEN (IF n < 3 THEN "\\d+" ELSE "\\d{3,}")
                      ELSE IF cls = "alpha" THEN "[A-Za-z]+"
                      ELSE "[._+~-]+"
         IN <<piece>> \o format_pieces(Drop(version, n))

\* version_format(version): the pieces of the compiled pattern; none for
\* "if not version: return re.compile('')"
version_format(version) ==
    IF version = NULL THEN <<>> ELSE format_pieces(version)

\* re_verfmt.match(ver): the pieces in order from the start of ver, each
\* taking at least its minimum (the regex backtracks over how much)
RECURSIVE verfmt_match(_, _)
verfmt_match(pieces, ver) ==
    IF pieces = <<>> THEN TRUE
    ELSE LET p == Head(pieces)
             cls == IF p \in {"\\d+", "\\d{3,}"} THEN "digit"
                    ELSE IF p = "[A-Za-z]+" THEN "alpha" ELSE "sep"
             least == IF p = "\\d{3,}" THEN 3 ELSE 1
         IN \E n \in least..ClassRun(ver, cls) :
               verfmt_match(Tail(pieces), Drop(ver, n))

\* (variant: the version is compared before the format)
KeyGreater_VersionFirst(k1, k2) ==
    IF k1.pfxmatch # k2.pfxmatch THEN k1.pfxmatch
    ELSE IF version_compare(Chars(k1.ver), Chars(k2.ver)) # 0
    THEN version_compare(Chars(k1.ver), Chars(k2.ver)) > 0
    ELSE k1.vermatch /\ ~k2.vermatch

\* the order max() puts on the keys (pfxmatch, vermatch, version_compare_key(ver))
KeyGreater(k1, k2) ==
    IF k1.pfxmatch # k2.pfxmatch THEN k1.pfxmatch
    ELSE IF k1.vermatch # k2.vermatch THEN k1.vermatch
    ELSE version_compare(Chars(k1.ver), Chars(k2.ver)) > 0

\* tarball_maxver(tbllist, name, origversion); a Tarball is modelled by its
\* filename
tarball_maxver(tbllist, name, origversion) ==
    LET lname == IF name = NULL THEN NULL ELSE Lower(name)
        re_verfmt == version_format(origversion)
        kept == {i \in DOMAIN tbllist :
                   /\ lname \notin {NULL, ""}
                   /\ StartsWith(Lower(tbllist[i]), lname)
                   /\ ~RE_BINARY_search(tbllist[i])
                   /\ RE_TARBALL_match(tbllist[i]).matched}
        key(i) == LET match == RE_TARBALL_match(tbllist[i])
                  IN [pfxmatch |-> match.prefix = name,
                      vermatch |-> verfmt_match(re_verfmt, match.ver),
                      ver |-> match.ver]
        keys == {key(i) : i \in kept}
        best == CHOOSE k \in keys : \A k2 \in keys : k2 = k \/ KeyGreater(k, k2)
        \* tblversions[key] = t: a later file with the same key replaces an earlier
        last == CHOOSE i \in kept : key(i) = best /\ \A j \in kept : key(j) = best => j <= i
    IN IF keys = {} THEN [kind |-> "maxver", ver |-> NULL, file |-> NULL]
       ELSE [kind |-> "maxver", ver |-> best.ver, file |-> tbllist[last]]

\* Directory listings: the file names a listing can hold.
FileNames ==
    {"foo-1.2.tar.gz", "foo-1.10.tar.gz", "foo-linux64-2.0.tar.gz",
     "foo-win-2.0.tar.gz", "foo-2023.tar.gz", "foobar-3.0.tar.gz",
     "foo-1.2.zip", "README"}

MaxFiles == 3

\* The lists of at most n file names, none twice.
RECURSIVE ListsUpTo(_, _)
ListsUpTo(S, n) ==
    IF n = 0 THEN {<<>>}
    ELSE LET shorter == ListsUpTo(S, n - 1)
         IN shorter \cup
            {Append(l, x) : l \in {t \in shorter : Len(t) = n - 1}, x \in S}

TarballLists == {l \in ListsUpTo(FileNames, MaxFiles) :
                \A i, j \in DOMAIN l : i # j => l[i] # l[j]}

TarballMaxver ==
    /\ call.fn = "tarball_maxver"
    /\ ret = NoRet
    /\ ret' = tarball_maxver(call.tbllist, call.name, call.origversion)
    /\ UNCHANGED call
    /\ UNCHANGED notFn

\* ================================================ remove_package_version
\* s.strip(chars): the characters of the set chars are dropped at both ends
RECURSIVE LStrip(_, _)
LStrip(s, chars) ==
    IF s # "" /\ CharAt(s, 1) \in chars THEN LStrip(Drop(s, 1), chars) ELSE s

RECURSIVE RStrip(_, _)
RStrip(s, chars) ==
    IF s # "" /\ CharAt(s, Len(s)) \in chars
    THEN RStrip(SubSeq(s, 1, Len(s) - 1), chars)
    ELSE s

Strip(s, chars) == RStrip(LStrip(s, chars), chars)

\* s.split(sep) for a one-character sep: always at least one piece
RECURSIVE Split(_, _)
Split(s, sep) ==
    IF ~Contains(s, sep) THEN <<s>>
    ELSE LET i == Min({k \in 1..Len(s) : CharAt(s, k) = sep})
         IN <<SubSeq(s, 1, i - 1)>> \o Split(Drop(s, i), sep)

\* sep.join(pieces)
RECURSIVE Join(_, _)
Join(pieces, sep) ==
    IF pieces = <<>> THEN ""
    ELSE IF Len(pieces) = 1 THEN pieces[1]
    ELSE pieces[1] \o sep \o Join(Tail(pieces), sep)

\* s.replace(old, ''): every occurrence of old, from the left, is removed;
\* an empty old leaves s as it is
RECURSIVE Remove(_, _)
Remove(s, old) ==
    IF old = "" \/ s = "" THEN s
    ELSE IF StartsWith(s, old) THEN Remove(Drop(s, Len(old)), old)
    ELSE CharAt(s, 1) \o Remove(Drop(s, 1), old)

\* urllib.parse.unquote: the escapes of the characters that occur in the
\* modelled paths; any other "%" stays
PERCENT_ESCAPES ==
    <<<<"%20", " ">>, <<"%2D", "-">>, <<"%2E", ".">>, <<"%2F", "/">>, <<"%5F", "_">>>>

RECURSIVE unquote(_)
unquote(s) ==
    IF s = "" THEN ""
    ELSE IF \E k \in DOMAIN PERCENT_ESCAPES : StartsWith(s, PERCENT_ESCAPES[k][1])
    THEN LET k == CHOOSE k \in DOMAIN PERCENT_ESCAPES :
                      StartsWith(s, PERCENT_ESCAPES[k][1])
         IN PERCENT_ESCAPES[k][2] \o unquote(Drop(s, 3))
    ELSE CharAt(s, 1) \o unquote(Drop(s, 1))

AllDigits(s) == s # "" /\ \A i \in 1..Len(s) : CharAt(s, i) \in Digits

\* RE_VER_MINOR.match(s): digits, a dot, digits, and nothing else
RE_VER_MINOR_match(s) ==
    \E i \in 1..Len(s) :
        /\ CharAt(s, i) = "."
        /\ AllDigits(SubSeq(s, 1, i - 1))
        /\ AllDigits(Drop(s, i))

VERCHECK_STRIP == {" ", "-", "_", "."}

\* the segment of the path at which the loop breaks
IsVersionSegment(name, s, version) ==
    LET vercheck == Strip(Remove(unquote(s), name), VERCHECK_STRIP)
    IN /\ Len(vercheck) > 1
       /\ \/ Contains(vercheck, version)
          \/ ~RE_VER_MINOR_match(vercheck) /\ StartsWith(version, vercheck)

\* the loop over the segments: newurlpspl after the segments of segs
RECURSIVE KeptSegments(_, _, _)
KeptSegments(name, segs, version) ==
    IF segs = <<>> THEN <<>>
    ELSE IF IsVersionSegment(name, Head(segs), version) THEN <<>>
    ELSE (IF Head(segs) # "" THEN <<Head(segs)>> ELSE <<>>)
         \o KeptSegments(name, Tail(segs), version)

\* (variant: the list does not start with the empty piece)
remove_package_version_Relative(name, url, version) ==
    Join(KeptSegments(name, Split(Strip(url, {"/"}), "/"), version), "/") \o "/"

remove_package_version(name, url, version) ==
    Join(<<"">> \o KeptSegments(name, Split(Strip(url, {"/"}), "/"), version), "/")
    \o "/"

\* the paths the function is called on: up to MaxSegs segments, with or
\* without a slash at either end
MaxSegs == 3
PathSegments == {"", "pub", "foo", "foo-1.2.3", "1.2", "v1.2.3", "foo%2D1.2"}
UrlPaths ==
    {lead \o Join(segs, "/") \o trail :
        lead \in {"", "/"}, trail \in {"", "/"},
        segs \in ListsUpTo(PathSegments, MaxSegs)}

RemovePackageVersion ==
    /\ call.fn = "remove_package_version"
    /\ ret = NoRet
    /\ ret' = [kind |-> "path",
               path |-> remove_package_version(call.name, call.url, call.version)]
    /\ UNCHANGED call
    /\ UNCHANGED notFn

\* ============================================================== urlparse
\* s.find(sub) from position from on: the position of the first occurrence,
\* counted from 1, or 0
Find(s, sub, from) ==
    LET hits == {i \in from..(Len(s) - Len(sub) + 1) : SubSeq(s, i, i + Len(sub) - 1) = sub}
    IN IF hits = {} THEN 0 ELSE Min(hits)

\* s.rfind(c) for one character, counted from 1, or 0
RFind(s, c) ==
    LET hits == {i \in 1..Len(s) : CharAt(s, i) = c}
    IN IF hits = {} THEN 0 ELSE CHOOSE i \in hits : \A j \in hits : j <= i

Take(s, n) == SubSeq(s, 1, n)

\* s.partition(sep)[0] and [2], s.rpartition(sep)[2], s.rsplit(sep, 1)[0]
Before(s, sep) == IF Find(s, sep, 1) = 0 THEN s ELSE Take(s, Find(s, sep, 1) - 1)
After(s, sep) == IF Find(s, sep, 1) = 0 THEN "" ELSE Drop(s, Find(s, sep, 1))
AfterLast(s, c) == Drop(s, RFind(s, c))
BeforeLast(s, c) == IF RFind(s, c) = 0 THEN s ELSE Take(s, RFind(s, c) - 1)

\* seq[-1] of a split
Last(seq) == seq[Len(seq)]

\* seq[:n] and seq[n:]
FirstN(seq, n) == SubSeq(seq, 1, IF Len(seq) < n THEN Len(seq) ELSE n)
FromN(seq, n) == IF n >= Len(seq) THEN <<>> ELSE SubSeq(seq, n + 1, Len(seq))

SCHEME_CHARS == Letters \cup Digits \cup {"+", "-", "."}
USES_PARAMS ==
    {"", "ftp", "hdl", "prospero", "http", "imap", "https", "shttp", "rtsp",
     "rtsps", "rtspu", "sip", "sips", "mms", "sftp", "tel"}
USES_NETLOC ==
    {"", "ftp", "http", "gopher", "nntp", "telnet", "imap", "wais", "file",
     "mms", "https", "shttp", "snews", "prospero", "rtsp", "rtsps", "rtspu",
     "rsync", "svn", "svn+ssh", "sftp", "nfs", "git", "git+ssh", "ws", "wss"}

\* urlsplit: the scheme, when the text before the first colon is one
SplitScheme(url) ==
    LET i == Find(url, ":", 1)
    IN IF /\ i > 1
          /\ CharAt(url, 1) \in Letters
          /\ \A k \in 1..(i - 1) : CharAt(url, k) \in SCHEME_CHARS
       THEN [scheme |-> Lower(Take(url, i - 1)), rest |-> Drop(url, i)]
       ELSE [scheme |-> "", rest |-> url]

\* _splitnetloc: after "//", up to the first of "/", "?" and "#"
SplitNetloc(rest) ==
    IF ~StartsWith(rest, "//") THEN [netloc |-> "", rest |-> rest]
    ELSE LET ends == {i \in 3..Len(rest) : CharAt(rest, i) \in {"/", "?", "#"}}
             delim == IF ends = {} THEN Len(rest) + 1 ELSE Min(ends)
         IN [netloc |-> SubSeq(rest, 3, delim - 1), rest |-> Drop(rest, delim - 1)]

\* urlsplit raises ValueError("Invalid IPv6 URL") on one bracket without the other
urlparse_raises(url) ==
    LET netloc == SplitNetloc(SplitScheme(url).rest).netloc
    IN Contains(netloc, "[") # Contains(netloc, "]")

\* _splitparams: the parameters of the last path segment
SplitParams(path) ==
    LET i == Find(path, ";", IF RFind(path, "/") = 0 THEN 1 ELSE RFind(path, "/"))
    IN IF i = 0 THEN [path |-> path, params |-> ""]
       ELSE [path |-> Take(path, i - 1), params |-> Drop(path, i)]

urlparse(url) ==
    LET s == SplitScheme(url)
        n == SplitNetloc(s.rest)
        fragment == After(n.rest, "#")
        nofrag == Before(n.rest, "#")
        query == After(nofrag, "?")
        noquery == Before(nofrag, "?")
        p == IF s.scheme \in USES_PARAMS /\ Contains(noquery, ";")
             THEN SplitParams(noquery)
             ELSE [path |-> noquery, params |-> ""]
    IN [scheme |-> s.scheme, netloc |-> n.netloc, path |-> p.path,
        params |-> p.params, query |-> query, fragment |-> fragment]

\* ParseResult.hostname: without the user part and the port, in lower case;
\* None when empty
hostname(urlp) ==
    LET hostinfo == AfterLast(urlp.netloc, "@")
        host == IF Contains(hostinfo, "[")
                THEN Before(After(hostinfo, "["), "]")
                ELSE Before(hostinfo, ":")
    IN IF host = "" THEN NULL ELSE Lower(host)

urlunparse(p) ==
    LET url1 == IF p.params # "" THEN p.path \o ";" \o p.params ELSE p.path
        url2 == IF \/ p.netloc # ""
                   \/ p.scheme # "" /\ p.scheme \in USES_NETLOC /\ ~StartsWith(url1, "//")
                THEN "//" \o p.netloc
                     \o (IF url1 # "" /\ ~StartsWith(url1, "/") THEN "/" ELSE "")
                     \o url1
                ELSE url1
        url3 == IF p.scheme # "" THEN p.scheme \o ":" \o url2 ELSE url2
        url4 == IF p.query # "" THEN url3 \o "?" \o p.query ELSE url3
    IN IF p.fragment # "" THEN url4 \o "#" \o p.fragment ELSE url4

\* os.path.split: the directory, without its trailing slashes unless it is
\* made of slashes only, and the file name
path_split(p) ==
    LET i == RFind(p, "/")
        head == Take(p, i)
    IN [head |-> IF Strip(head, {"/"}) # "" THEN RStrip(head, {"/"}) ELSE head,
        tail |-> Drop(p, i)]

\* os.path.splitext(p)[1]: from the last dot of the file name on, unless
\* only dots come before it in the file name
path_ext(p) ==
    LET sep == RFind(p, "/")
        dot == RFind(p, ".")
    IN IF dot > sep /\ \E k \in (sep + 1)..(dot - 1) : CharAt(p, k) # "."
       THEN Drop(p, dot - 1)
       ELSE ""

\* ======================================================= detect_upstream
\* What detect_upstream gives: a tuple (type, fields...), None, or an
\* exception that leaves the function.
Upstream(type, fields) == [kind |-> "upstream", type |-> type, fields |-> fields]
NoUpstream == [kind |-> "None"]
Raises(exc) == [kind |-> "raise", exc |-> exc]

COMMON_EXT ==
    {".gz", ".bz2", ".xz", ".tar", ".7z", ".rar", ".zip", ".tgz", ".tbz", ".txz"}
CGIT_SITES ==
    {"git.kernel.org", "git.zx2c4.com", "git.gnome.org", "git.deluge-torrent.org",
     "git.netsurf-browser.org", "git.archlinux.org", "git.torproject.org",
     "git.opensvc.com", "repo.or.cz"}
SOURCEFORGE_DOWNLOADS ==
    {"downloads.sourceforge.net", "prdownloads.sourceforge.net",
     "download.sourceforge.net"}

\* the first two segments of the path, without a ".git" at the end
RepoOf(path) ==
    LET repo == Join(FirstN(Split(LStrip(path, {"/"}), "/"), 2), "/")
    IN IF EndsWith(repo, ".git") THEN Take(repo, Len(repo) - 4) ELSE repo

\* match.group(1) of RE_TARBALL on a file name, None without a match
TarballPrefix(filename) ==
    LET m == RE_TARBALL_match(filename)
    IN IF m.matched THEN m.prefix ELSE NULL

DetectBitbucket(urlp) ==
    LET pathseg == Split(LStrip(urlp.path, {"/"}), "/")
        prefix == TarballPrefix(Last(Split(urlp.path, "/")))
    IN IF Len(pathseg) > 2 /\ pathseg[3] = "downloads"
       THEN Upstream("bitbucket", <<RepoOf(urlp.path), "downloads", prefix>>)
       ELSE Upstream("bitbucket", <<RepoOf(urlp.path), "tag", prefix>>)

RE_PYPISRC_match(url) ==
    \E s \in {"http", "https"}, h \in {"python.org", "io"} :
        StartsWith(url, s \o "://pypi." \o h \o "/packages/source/")

DetectPypi(url, urlp) ==
    LET segs == Split(urlp.path, "/")
    IN IF RE_PYPISRC_match(url)
       THEN Upstream("pypi", <<segs[Len(segs) - 1]>>)
       ELSE Upstream("pypi", <<BeforeLast(Last(segs), "-")>>)

\* .group(1) on a failed match raises AttributeError
DetectRubygems(urlp) ==
    LET m == RE_TARBALL_match(Last(Split(urlp.path, "/")))
    IN IF m.matched THEN Upstream("rubygems", <<m.prefix>>)
       ELSE Raises("AttributeError")

DetectNpm(urlp) == Upstream("npm", <<Split(Strip(urlp.path, {"/"}), "/")[1]>>)

DetectLaunchpad(name, urlp) ==
    LET projname == Split(Strip(urlp.path, {"/"}), "/")[1]
        projnl == Lower(projname)
    IN IF Contains(projnl, name) \/ Contains(name, projnl)
       THEN Upstream("launchpad", <<projname>>)
       ELSE NoUpstream

\* the directory of the path with a slash at its end, and the file name
DirAndFile(path) ==
    LET sp == path_split(path)
    IN [dir |-> IF sp.head # "/" THEN sp.head \o "/" ELSE sp.head,
        filename |-> sp.tail]

DetectFtp(name, urlp, version) ==
    LET df == DirAndFile(urlp.path)
        dir == IF version # NULL /\ version # ""
               THEN remove_package_version(name, df.dir, version)
               ELSE df.dir
        newurl == urlunparse([urlp EXCEPT !.path = dir])
        fnmatch == RE_TARBALL_match(df.filename)
    IN IF ~fnmatch.matched THEN NoUpstream
       ELSE Upstream("ftp", <<newurl, fnmatch.prefix>>)

IsCgit(srctype, url, urlp) ==
    \/ Contains(url, "cgit")
    \/ /\ srctype = "GITSRC" \/ Contains(url, "git")
       /\ urlp.netloc \in CGIT_SITES \/ Contains(urlp.path, "/snapshot/")

DetectCgit(urlp) ==
    LET idx == Find(urlp.path, "/snapshot/", 1)
        path == IF idx # 0 THEN Take(urlp.path, idx) ELSE urlp.path
        scheme == IF urlp.scheme = "git" THEN "http" ELSE urlp.scheme
        newurl == Before(urlunparse([urlp EXCEPT !.scheme = scheme, !.path = path]), ";")
        stem == RStrip(path, {"/"})
        project == IF EndsWith(stem, ".git")
                   THEN RStrip(Take(stem, Len(stem) - 4), {"/"})
                   ELSE stem
    IN IF RE_TARBALL_match(Last(Split(newurl, "/"))).matched THEN NoUpstream
       ELSE Upstream("cgit", <<newurl, Last(Split(project, "/"))>>)

Truthy(version) == version # NULL /\ version # ""

\* the sourceforge rules of the http(s) branch; "next" when none applies
DetectSourceforge(host, dir, prefix) ==
    LET path == Split(Strip(dir, {"/"}), "/")
    IN IF host = "sourceforge.net"
       THEN IF path[1] = "projects"
            THEN IF Len(path) < 2 THEN Raises("IndexError")
                 ELSE Upstream("sourceforge",
                               <<path[2], "/" \o Join(FromN(path, 3), "/"), prefix>>)
            ELSE IF path[1] = "code-snapshots"
            THEN IF Len(path) < 5 THEN Raises("IndexError")
                 ELSE Upstream("sourceforge", <<path[5], "/", prefix>>)
            ELSE [kind |-> "next"]
       ELSE IF host \in SOURCEFORGE_DOWNLOADS
       THEN IF path[1] = "project"
            THEN IF Len(path) < 2 THEN Raises("IndexError")
                 ELSE Upstream("sourceforge",
                               <<path[2], "/" \o Join(FromN(path, 2), "/"), prefix>>)
            ELSE IF path[1] = "sourceforge"
            THEN IF Len(path) < 2 THEN Raises("IndexError")
                 ELSE Upstream("sourceforge", <<path[2], "/", prefix>>)
            ELSE Upstream("sourceforge", <<path[1], "/", prefix>>)
       ELSE IF host = NULL THEN Raises("AttributeError")
       ELSE IF EndsWith(host, ".sourceforge.net")
       THEN Upstream("sourceforge", <<Before(host, "."), "/", prefix>>)
       ELSE [kind |-> "next"]

\* newurlp[5] = '' and the return of the http(s) branch
Dirlist(newurlp, prefix) ==
    Upstream("dirlist", <<urlunparse([newurlp EXCEPT !.fragment = ""]), prefix>>)

DetectHttp(name, urlp, version) ==
    IF urlp.query = ""
    THEN LET isfile == path_ext(urlp.path) \in COMMON_EXT
             df == DirAndFile(urlp.path)
             dir == IF isfile THEN df.dir ELSE urlp.path
             prefix == IF isfile /\ df.filename # ""
                       THEN TarballPrefix(df.filename)
                       ELSE NULL
             sf == DetectSourceforge(hostname(urlp), dir, prefix)
         IN IF sf.kind # "next" THEN sf
            ELSE Dirlist([urlp EXCEPT !.path = IF Truthy(version)
                                                THEN remove_package_version(name, dir, version)
                                                ELSE dir],
                         prefix)
    ELSE IF hostname(urlp) = NULL THEN Raises("TypeError")
    ELSE IF Contains(hostname(urlp), name)
    THEN Dirlist([urlp EXCEPT !.path = "/", !.params = ""], NULL)
    ELSE Dirlist(urlp, NULL)

\* (variant: the scheme rules come before the host rules)
DetectRules_SchemeFirst(name, srctype, url, version) ==
    LET urlp == urlparse(url)
    IN IF urlp.scheme = "ftp" THEN DetectFtp(name, urlp, version)
       ELSE IF srctype = "SRCTBL" /\ urlp.scheme \in {"http", "https"}
       THEN DetectHttp(name, urlp, version)
       ELSE IF urlp.netloc = "github.com" THEN Upstream("github", <<RepoOf(urlp.path)>>)
       ELSE NoUpstream

\* the rules, in the order of the if/elif chain
DetectRules(name, srctype, url, version) ==
    LET urlp == urlparse(url)
    IN IF urlp.netloc = "github.com" THEN Upstream("github", <<RepoOf(urlp.path)>>)
       ELSE IF urlp.netloc = "gitlab.com" THEN Upstream("gitlab", <<RepoOf(urlp.path)>>)
       ELSE IF urlp.netloc = "bitbucket.org" THEN DetectBitbucket(urlp)
       ELSE IF urlp.netloc \in {"pypi.io", "pypi.python.org"} THEN DetectPypi(url, urlp)
       ELSE IF urlp.netloc \in {"rubygems.org", "gems.rubyforge.org"}
       THEN DetectRubygems(urlp)
       ELSE IF urlp.netloc = "registry.npmjs.org" THEN DetectNpm(urlp)
       ELSE IF urlp.netloc = "launchpad.net" THEN DetectLaunchpad(name, urlp)
       ELSE IF urlp.scheme = "ftp" THEN DetectFtp(name, urlp, version)
       ELSE IF IsCgit(srctype, url, urlp) THEN DetectCgit(urlp)
       ELSE IF srctype # "SRCTBL" THEN NoUpstream
       ELSE IF urlp.scheme \in {"http", "https"} THEN DetectHttp(name, urlp, version)
       ELSE NoUpstream

\* detect_upstream(name, srctype, url, version) on the text of the URL
detect_upstream_url(name, srctype, url, version) ==
    IF urlparse_raises(url) THEN Raises("ValueError")
    ELSE DetectRules(name, srctype, url, version)

\* The source URLs of the bounded catalog: every scheme, network location,
\* path and tail below, and the documented examples among them.
UrlSchemes == {"https://", "ftp://", "git://"}
UrlNetlocs ==
    {"github.com", "github.com:443", "GitHub.com", "gitlab.com", "bitbucket.org",
     "pypi.io", "rubygems.org", "registry.npmjs.org", "launchpad.net",
     "git.kernel.org", "sourceforge.net", "downloads.sourceforge.net",
     "foo.sourceforge.net", "curl.se", "dl.foo.org", ""}
UrlFilePaths ==
    {"", "/", "/org", "/org/foo.git", "/org/foo/archive/v1.0.tar.gz",
     "/org/foo/downloads/foo-1.0.tar.gz", "/download/curl-7.88.1.tar.xz",
     "/pub/foo/1.0/foo-1.0.tar.gz", "/packages/source/f/foo/foo-1.0.tar.gz",
     "/gems/foo-1.0.gem", "/gems/foo", "/projects/foo/files/1.0/foo-1.0.zip",
     "/projects", "/project/foo/foo-1.0.tar.gz", "/code-snapshots/git/f/fo/foo.zip",
     "/pub/scm/foo.git/snapshot/foo-1.0.tar.gz", "/cgit/foo.git", "/foo/index.html",
     "/pub/foo-1.0.tar.gz;type=i"}
UrlTails == {"", "?download=1", "#top"}
SourceUrls ==
    {s \o n \o p \o t : s \in UrlSchemes, n \in UrlNetlocs, p \in UrlFilePaths, t \in UrlTails}
    \cup {"https://user@github.com/org/foo", "http://[::1/foo-1.0.tar.gz",
          "foo-1.0.tar.gz", "http:foo-1.0.tar.gz"}

DetectUpstream ==
    /\ call.fn = "detect_upstream"
    /\ ret = NoRet
    /\ ret' = detect_upstream_url(call.name, call.srctype, call.url, call.version)
    /\ UNCHANGED call
    /\ UNCHANGED notFn

\* =================================================== anitya.check_update
ITEMS_PER_PAGE == 250
MAX_RETRYS == 5

\* The projects of the endpoint: project i of the server.held it holds (it
\* announces server.total), its name and its version as upstream wrote it
\* (None: no version known).
UPSTREAM_VERSIONS == <<"1_2_3", "foo-v1.0", NULL, "Foo_2_0", "release-3.1", "">>
ProjectAt(i) ==
    [id |-> i, name |-> "foo", backend |-> "custom",
     version |-> UPSTREAM_VERSIONS[(i % Len(UPSTREAM_VERSIONS)) + 1]]

\* the projects of page p, in order
PageItems(p) ==
    LET first == (p - 1) * ITEMS_PER_PAGE + 1
        last == IF p * ITEMS_PER_PAGE < server.held THEN p * ITEMS_PER_PAGE
                ELSE server.held
    IN [k \in 1..(IF last < first THEN 0 ELSE last - first + 1) |-> ProjectAt(first + k - 1)]

\* json.loads(req.content): the v2 endpoint answers with items and
\* total_items, the v1 endpoint with projects and total
Payload(p) ==
    IF server.shape = "v2"
    THEN [total_items |-> server.total, items |-> PageItems(p), page |-> p]
    ELSE [total |-> server.total, projects |-> PageItems(p)]

\* re.sub('^' + re.escape(name) + '[._-]', '', version, flags=re.I)
NamePrefixSub(name, version) ==
    IF /\ StartsWith(Lower(version), Lower(name))
       /\ CharAt(Drop(version, Len(name)), 1) \in {".", "_", "-"}
    THEN Drop(version, Len(name) + 1)
    ELSE version

\* RE_VERSION_UNDERLINE.match(version): digits, "_", a digit at the start
UnderlineAtStart(version) ==
    \E i \in 2..Len(version) :
        /\ CharAt(version, i) = "_"
        /\ AllDigits(Take(version, i - 1))
        /\ CharAt(version, i + 1) \in Digits

\* the while loop of version_underline_norm: in the end every "_" between
\* two digits is a "."
RECURSIVE UnderlinesToDots(_, _)
UnderlinesToDots(done, rest) ==
    IF rest = "" THEN done
    ELSE UnderlinesToDots(
            done \o (IF /\ CharAt(rest, 1) = "_"
                        /\ CharAt(done, Len(done)) \in Digits
                        /\ CharAt(rest, 2) \in Digits
                     THEN "."
                     ELSE CharAt(rest, 1)),
            Drop(rest, 1))

version_underline_norm(version) ==
    IF UnderlineAtStart(version) THEN UnderlinesToDots("", version) ELSE version

\* the row REPLACEd INTO anitya_projects for a project: its key, its name
\* and the normalized version
ProjectRow(project) ==
    [id |-> project.id, name |-> project.name, backend |-> project.backend,
     version |-> IF Truthy(project.version)
                 THEN version_underline_norm(
                        VerPrefixSub(NamePrefixSub(project.name, project.version)))
                 ELSE NULL]

\* REPLACE INTO: a row takes the place of the row with its key
Replace(table, rows) ==
    {r \in table : \A n \in rows : n.id # r.id} \cup rows

\* the condition of the while loop
Looping == got_items < total_items /\ retrys < MAX_RETRYS

\* Page numbers count up to MaxPage: every page from there on lies beyond
\* the last project of the endpoint and is not told from the next. The log of
\* the requests is as long as a run up to that page can make it.
MaxPage == 4
NextPage == IF page < MaxPage THEN page + 1 ELSE page

Asked(ok) ==
    IF Len(requests) < MaxPage + MAX_RETRYS - 1
    THEN Append(requests, [page |-> page, ok |-> ok])
    ELSE requests

\* update_db calls check_update: the assignments before the loop
CheckUpdate ==
    /\ sync_pc = "idle"
    /\ sync_pc' = "loop"
    /\ total_items' = 1
    /\ got_items' = 0
    /\ page' = 1
    /\ retrys' = 0
    /\ UNCHANGED <<server, sync_exc, anitya_projects, requests>>
    /\ UNCHANGED linkVars
    /\ UNCHANGED notSync

\* (variant: the next page is asked after a failure)
RequestFails_SkipPage ==
    /\ sync_pc = "loop"
    /\ Looping
    /\ requests' = Asked(FALSE)
    /\ retrys' = retrys + 1
    /\ page' = page + 1
    /\ UNCHANGED <<server, sync_pc, sync_exc, total_items, got_items, anitya_projects>>
    /\ UNCHANGED linkVars
    /\ UNCHANGED notSync

\* anitya_api raises (connection error, timeout, HTTP error status, bad JSON)
RequestFails ==
    /\ sync_pc = "loop"
    /\ Looping
    /\ requests' = Asked(FALSE)
    /\ retrys' = retrys + 1
    /\ UNCHANGED <<server, sync_pc, sync_exc, total_items, got_items, page,
                   anitya_projects>>
    /\ UNCHANGED linkVars
    /\ UNCHANGED notSync

\* anitya_api answers with a payload that has total_items and items: the
\* rows of the page are stored and committed
StorePage ==
    /\ sync_pc = "loop"
    /\ Looping
    /\ LET projects == Payload(page)
       IN /\ {"total_items", "items"} \subseteq DOMAIN projects
          /\ requests' = Asked(TRUE)
          /\ total_items' = projects.total_items
          /\ got_items' = got_items + Len(projects.items)
          /\ anitya_projects' =
                Replace(anitya_projects,
                        {ProjectRow(projects.items[k]) : k \in DOMAIN projects.items})
          /\ page' = NextPage
    /\ UNCHANGED <<server, sync_pc, sync_exc, retrys>>
    /\ UNCHANGED linkVars
    /\ UNCHANGED notSync

\* anitya_api answers with a payload without total_items:
\* projects['total_items'] raises KeyError, outside the try block
PayloadKeyError ==
    /\ sync_pc = "loop"
    /\ Looping
    /\ "total_items" \notin DOMAIN Payload(page)
    /\ requests' = Asked(TRUE)
    /\ sync_pc' = "raised"
    /\ sync_exc' = "KeyError"
    /\ UNCHANGED <<server, total_items, got_items, page, retrys, anitya_projects>>
    /\ UNCHANGED linkVars
    /\ UNCHANGED notSync

\* the loop ends and check_update returns
CheckUpdateReturn ==
    /\ sync_pc = "loop"
    /\ ~Looping
    /\ sync_pc' = "returned"
    /\ UNCHANGED <<server, sync_exc, total_items, got_items, page, retrys,
                   anitya_projects, requests>>
    /\ UNCHANGED linkVars
    /\ UNCHANGED notSync

\* ==================================================== anitya.detect_links
\* ecosystems.get(backend, '')
Ecosystem(backend) ==
    CASE backend = "pypi" -> "PyPI"
      [] backend = "npmjs" -> "npm"
      [] backend = "Rubygems" -> "rubygems"
      [] backend = "Maven Central" -> "maven"
      [] backend = "PyPI" -> "PyPI"
      [] backend = "crates.io" -> "crates.io"
      [] OTHER -> ""

\* (variant: the order the ecosystems are listed in)
backend_cmp_Listed(a, b) ==
    LET rank(e) == CASE e = "PyPI" -> 1 [] e = "npm" -> 2 [] e = "rubygems" -> 3
                     [] e = "maven" -> 4 [] e = "crates.io" -> 5 [] OTHER -> 6
    IN cmp(rank(Ecosystem(a)), rank(Ecosystem(b)))

\* the collation backend_cmp: cmp on the ecosystem labels, as str
backend_cmp(a, b) == cmp_str(Chars(Ecosystem(a)), Chars(Ecosystem(b)))

\* s with every character of the set chars removed
RECURSIVE RemoveChars(_, _)
RemoveChars(s, chars) ==
    IF s = "" THEN ""
    ELSE (IF CharAt(s, 1) \in chars THEN "" ELSE CharAt(s, 1))
         \o RemoveChars(Drop(s, 1), chars)

\* re_projectrep.sub('', s): '^[^/]+/' takes the text up to the first slash
\* when the string does not start with one, '[. _-]' every separator left
re_projectrep_sub(s) ==
    LET slash == Find(s, "/", 1)
    IN RemoveChars(IF slash > 1 THEN Drop(s, slash) ELSE s, {".", " ", "_", "-"})

\* name_index of a project row and of a package
ProjectIndex(name) == re_projectrep_sub(Lower(name))
PackageIndex(name) == RemoveChars(Lower(name), {"-", " ", "_"})

\* min(backend COLLATE backend_cmp) of the rows named name: of the backends
\* least under the collation, the one met first, in the order of the id
MinBackend(table, name) ==
    LET named == {r \in table : r.name = name}
        least == {r \in named : \A o \in named : backend_cmp(r.backend, o.backend) <= 0}
    IN (CHOOSE r \in least : \A o \in least : r.id <= o.id).backend

\* the SELECT: the rows that have the least backend of their name
SelectedProjects(table) == {r \in table : r.backend = MinBackend(table, r.name)}

\* project_index[idx]: of the selected rows with that name_index, the first
\* in the order of the id
IndexedProject(table, idx) ==
    LET rows == {r \in SelectedProjects(table) : ProjectIndex(r.name) = idx}
    IN IF rows = {} THEN NULLINT
       ELSE (CHOOSE r \in rows : \A o \in rows : r.id <= o.id).id

\* links: a row for every package whose name_index is in project_index
Links(table, packages) ==
    {[package |-> p, projectid |-> IndexedProject(table, PackageIndex(p))] :
        p \in {q \in packages : IndexedProject(table, PackageIndex(q)) # NULLINT}}

\* REPLACE INTO anitya_link: a row takes the place of the row of its package
ReplaceLinks(table, rows) ==
    {l \in table : \A n \in rows : n.package # l.package} \cup rows

\* update_db calls detect_links after check_update
DetectLinks ==
    /\ sync_pc = "returned"
    /\ sync_pc' = "linked"
    /\ anitya_link' = ReplaceLinks(anitya_link, Links(anitya_projects, abbs_packages))
    /\ UNCHANGED <<server, sync_exc, total_items, got_items, page, retrys,
                   anitya_projects, requests, abbs_packages>>
    /\ UNCHANGED notSync

\* ============================================================== tag_maxver
\* re.sub('^' + re.escape(prefix) + '[._-]', '', tag.name, flags=re.I)
TagPrefixSub(prefix, name) ==
    IF /\ StartsWith(Lower(name), Lower(prefix))
       /\ CharAt(Drop(name, Len(prefix)), 1) \in {".", "_", "-"}
    THEN Drop(name, Len(prefix) + 1)
    ELSE name

\* RE_VERSION.match(ver): \d+\.\d+|\d{3,} at the start of ver
RE_VERSION_match(ver) ==
    LET n == ClassRun(ver, "digit")
    IN \/ n >= 1 /\ CharAt(ver, n + 1) = "." /\ CharAt(ver, n + 2) \in Digits
       \/ n >= 3

\* the order max() puts on the keys (vermatch, version_compare_key(ver))
TagKeyGreater(k1, k2) ==
    IF k1.vermatch # k2.vermatch THEN k1.vermatch
    ELSE version_compare(Chars(k1.ver), Chars(k2.ver)) > 0

\* tag_maxver(taglist, prefix, origversion); a tag is modelled by its name.
\* Without a prefix the first turn of the loop reads ver before anything
\* was assigned to it.
tag_maxver(taglist, prefix, origversion) ==
    LET re_verfmt == version_format(origversion)
        ver(i) == VerPrefixSub(TagPrefixSub(prefix, taglist[i]))
        kept == {i \in DOMAIN taglist : RE_VERSION_match(ver(i))}
        key(i) == [vermatch |-> verfmt_match(re_verfmt, ver(i)), ver |-> ver(i)]
        \* max() keeps the first of the greatest keys, in the order the
        \* dictionary got them
        greatest == {i \in kept : \A j \in kept : ~TagKeyGreater(key(j), key(i))}
        best == key(Min(greatest))
        \* versions[key] = tag: a later tag with the same key replaces an earlier
        last == CHOOSE i \in kept : key(i) = best /\ \A j \in kept : key(j) = best => j <= i
    IN IF taglist = <<>> THEN [kind |-> "maxver", ver |-> NULL, file |-> NULL]
       ELSE IF prefix \in {NULL, ""} THEN Raises("UnboundLocalError")
       ELSE IF kept = {} THEN [kind |-> "maxver", ver |-> NULL, file |-> NULL]
       ELSE [kind |-> "maxver", ver |-> best.ver, file |-> taglist[last]]

TagMaxver ==
    /\ call.fn = "tag_maxver"
    /\ ret = NoRet
    /\ ret' = tag_maxver(call.tbllist, call.name, call.origversion)
    /\ UNCHANGED call
    /\ UNCHANGED notFn

\* Candidates of different shapes: file names and tag names.
ShapeFiles ==
    {"foo-1.2.4.tar.gz", "foo-20240101.tar.gz", "foo-1.2.tar.gz",
     "Foo-1.3.0.tar.gz", "foo-2.0.0.tar.gz"}
ShapeTags == {"1.2.4", "v20240101", "foo-1.2.5", "v1.3", "nightly"}
ShapeLists(S) == {l \in ListsUpTo(S, MaxFiles) :
                     \A i, j \in DOMAIN l : i # j => l[i] # l[j]}

\* ============================================================ human2bytes
\* What a size function gives: an int, None, or an exception.
IntValue(n) == [kind |-> "int", value |-> n]
NoneValue == [kind |-> "None"]

\* the value of a string of digits
RECURSIVE DigitsValue(_)
DigitsValue(s) ==
    IF s = "" THEN 0
    ELSE 10 * DigitsValue(Take(s, Len(s) - 1)) + DigitVal(CharAt(s, Len(s)))

RECURSIVE Pow(_, _)
Pow(b, e) == IF e = 0 THEN 1 ELSE b * Pow(b, e - 1)

\* the text of a number without the blanks around it, and its sign
Unsigned(s) ==
    LET t == Strip(s, {" "})
    IN IF CharAt(t, 1) \in {"-", "+"} THEN Drop(t, 1) ELSE t
Negative(s) == CharAt(Strip(s, {" "}), 1) = "-"

\* int(s) succeeds: blanks, a sign, digits
IsInt(s) == AllDigits(Unsigned(s))
int_str(s) == (IF Negative(s) THEN -1 ELSE 1) * DigitsValue(Unsigned(s))

\* float(s) succeeds: blanks, a sign, digits with at most one point among
\* them (no exponent, "inf" or "nan" in the modelled alphabet)
IsFloat(s) ==
    LET u == Unsigned(s)
        whole == Before(u, ".")
        frac == After(u, ".")
    IN /\ whole \o frac # ""
       /\ whole = "" \/ AllDigits(whole)
       /\ frac = "" \/ AllDigits(frac)

SYMBOLS == "BKMGTPEZY"

\* int(float(s) * (1 << 10 * k)): the fraction is cut off, towards zero
Scaled(s, k) ==
    LET u == Unsigned(s)
        magnitude == (DigitsValue(Before(u, ".") \o After(u, ".")) * Pow(1024, k))
                     \div Pow(10, Len(After(u, ".")))
    IN (IF Negative(s) THEN -1 ELSE 1) * magnitude

UpperChar(c) ==
    IF \E i \in 1..26 : SubSeq(LOWERCASE, i, i) = c
    THEN SubSeq(UPPERCASE, IndexIn(LOWERCASE, c), IndexIn(LOWERCASE, c))
    ELSE c

human2bytes(s) ==
    IF s = NULL THEN NoneValue
    ELSE IF IsInt(s) THEN IntValue(int_str(s))
    ELSE LET letter == UpperChar(Strip(CharAt(s, Len(s)), {" "}))
             num == Take(s, Len(s) - 1)
         IN IF ~IsFloat(num) THEN Raises("ValueError")
            ELSE IF letter = "" \/ ~Contains(SYMBOLS, letter) THEN Raises("KeyError")
            ELSE IntValue(Scaled(num, IndexIn(SYMBOLS, letter) - 1))

\* the size strings of the bounded check: every string of up to MaxSizeLen
\* characters, and the documented examples
MaxSizeLen == 4
SizeChars == {"0", "1", ".", "K", "m", "x", " ", "-"}
SizeStrings == StrsUpTo(SizeChars, MaxSizeLen) \cup {NULL, "1M", "1G", "1.5K", "10B"}

Human2Bytes ==
    /\ call.fn = "human2bytes"
    /\ ret = NoRet
    /\ ret' = human2bytes(call.s)
    /\ UNCHANGED call
    /\ UNCHANGED notFn

\* =========================================================== parse_listing
\* The children of the first <pre> that holds a link with text, in document
\* order (images are removed before the walk). A text node is given as the
\* parts the expressions of DATETIME_FMTs and RE_FILESIZE cut its first
\* line in: the date, the size text, and what is left.
Anchor(string, href) ==
    [name |-> "a", string |-> string, href |-> href,
     mod |-> NULL, sizestr |-> NULL, rest |-> ""]
TextNode(mod, sizestr, rest) ==
    [name |-> NULL, string |-> NULL, href |-> NULL,
     mod |-> mod, sizestr |-> sizestr, rest |-> rest]
Tag(name) ==
    [name |-> name, string |-> NULL, href |-> NULL,
     mod |-> NULL, sizestr |-> NULL, rest |-> ""]

\* FileEntry(name, modified, size, description)
ListingEntry(name, modified, size, description) ==
    [name |-> name, modified |-> modified, size |-> size,
     description |-> description]

\* pre.hr.next_siblings if pre.hr else pre.children
Walked(pre) ==
    IF \E i \in DOMAIN pre : pre[i].name = "hr"
    THEN LET i == CHOOSE i \in DOMAIN pre :
                      /\ pre[i].name = "hr"
                      /\ \A j \in 1..(i - 1) : pre[j].name # "hr"
         IN SubSeq(pre, i + 1, Len(pre))
    ELSE pre

ListingStart ==
    [started |-> FALSE, file_name |-> NULL, file_mod |-> NULL,
     file_size |-> NoneValue, file_desc |-> NULL, listing |-> <<>>,
     exc |-> NULL]

Flushed(st) ==
    IF st.file_name # NULL /\ st.file_name # ""
    THEN Append(st.listing, ListingEntry(st.file_name, st.file_mod,
                                         st.file_size, st.file_desc))
    ELSE st.listing

\* one turn of the loop over the children of the <pre>
ListingStep(st, element) ==
    IF st.exc # NULL THEN st
    ELSE IF element.name = "a" THEN
        IF element.string = NULL \/ Strip(element.string, {" "}) = "" THEN st
        ELSE IF st.started THEN
            [st EXCEPT !.listing = Flushed(st),
                       !.file_name = unquote(element.href),
                       !.file_mod = NULL, !.file_size = NoneValue,
                       !.file_desc = NULL]
        ELSE IF element.string \in {"Parent Directory", "..", "../"}
        THEN [st EXCEPT !.started = TRUE]
        ELSE IF element.href = "" THEN [st EXCEPT !.exc = "IndexError"]
        ELSE IF CharAt(element.href, 1) \notin {"?", "/"}
        THEN [st EXCEPT !.started = TRUE]
        ELSE st
    ELSE IF element.name = NULL THEN
        LET mod == IF element.mod # NULL THEN element.mod ELSE st.file_mod
            size == IF element.sizestr = NULL THEN st.file_size
                    ELSE IF element.sizestr = "-" THEN NoneValue
                    ELSE human2bytes(Remove(element.sizestr, " "))
            line == element.rest
        IN IF line = "" THEN [st EXCEPT !.file_mod = mod, !.file_size = size]
           ELSE IF st.file_name # NULL /\ st.file_name # "" /\ RStrip(line, {" "}) = "/"
           THEN [st EXCEPT !.file_mod = mod, !.file_size = size,
                           !.file_name = st.file_name \o "/",
                           !.file_desc = NULL]
           ELSE [st EXCEPT !.file_mod = mod, !.file_size = size,
                           !.file_desc = RStrip(line, {" "})]
    ELSE st

RECURSIVE ListingWalk(_, _)
ListingWalk(st, elements) ==
    IF elements = <<>> THEN st
    ELSE ListingWalk(ListingStep(st, Head(elements)), Tail(elements))

\* parse_listing of a page whose only <pre> has the given children and that
\* has no table: the entries, or the exception
parse_listing(pre) ==
    IF ~\E i \in DOMAIN pre :
           /\ pre[i].name = "a"
           /\ pre[i].string # NULL
           /\ Strip(pre[i].string, {" "}) # ""
    THEN [kind |-> "listing", listing |-> <<>>]
    ELSE LET st == ListingWalk(ListingStart, Walked(pre))
         IN IF st.exc # NULL THEN Raises(st.exc)
            ELSE [kind |-> "listing", listing |-> Flushed(st)]

\* ---- well-formed listings: what mod_autoindex (FancyIndexing, with its
\* header of sort links and rules) and nginx's autoindex send for a directory
MaxRows == 2
FileRows ==
    {[href |-> "foo-1.0.tar.gz", string |-> "foo-1.0.tar.gz", sizestr |-> "1.0M"],
     [href |-> "foo-1.1.tar.gz", string |-> "foo-1.1.tar.gz", sizestr |-> "12K"],
     [href |-> "a%20b.txt", string |-> "a b.txt", sizestr |-> "120"],
     [href |-> "old/", string |-> "old/", sizestr |-> "-"]}
RowSeqs == {rows \in SeqsUpTo(FileRows, MaxRows) :
                \A i, j \in DOMAIN rows : i # j => rows[i] # rows[j]}

RECURSIVE RowElements(_)
RowElements(rows) ==
    IF rows = <<>> THEN <<>>
    ELSE <<Anchor(Head(rows).string, Head(rows).href),
           TextNode("2020-01-01 10:00", Head(rows).sizestr, "")>>
         \o RowElements(Tail(rows))

ApacheListing(parent, rows) ==
    <<Anchor("Name", "?C=N;O=D"), TextNode(NULL, NULL, ""),
      Anchor("Last modified", "?C=M;O=A"), TextNode(NULL, NULL, ""),
      Anchor("Size", "?C=S;O=A"), TextNode(NULL, NULL, ""),
      Anchor("Description", "?C=D;O=A"), Tag("hr")>>
    \o (IF parent THEN <<Anchor("Parent Directory", "/"),
                         TextNode(NULL, "-", "")>>
        ELSE <<>>)
    \o RowElements(rows) \o <<Tag("hr")>>

NginxListing(parent, rows) ==
    (IF parent THEN <<Anchor("../", "../"), TextNode(NULL, NULL, "")>> ELSE <<>>)
    \o RowElements(rows)

ParseListing ==
    /\ call.fn = "parse_listing"
    /\ ret = NoRet
    /\ ret' = parse_listing(call.pre)
    /\ UNCHANGED call
    /\ UNCHANGED notFn

\* ======================================================== check_dirlisting
CHUNK_SIZE == 4096
MAX_BODY == 50 * 1024 * 1024
MAX_PARSED == 1024 * 1024

\* ctsize after k turns of "for chunk in req.iter_content(4096)"
CtSize(size, k) == IF k * CHUNK_SIZE < size THEN k * CHUNK_SIZE ELSE size

\* (variant: no limit)
ReadBody_Unlimited(size) == [raised |-> FALSE, ctsize |-> size]

\* the loop over the chunks: the turn in which ctsize passes the limit
\* raises, otherwise the whole body is read
\* (ctsize grows by CHUNK_SIZE a turn up to size, so the first turn that
\* passes MAX_BODY, if any, is turn MAX_BODY \div CHUNK_SIZE + 1)
ReadBody(size) ==
    LET turns == (size + CHUNK_SIZE - 1) \div CHUNK_SIZE
        first == (MAX_BODY \div CHUNK_SIZE) + 1
    IN IF first <= turns /\ CtSize(size, first) > MAX_BODY
       THEN [raised |-> TRUE, ctsize |-> CtSize(size, first)]
       ELSE [raised |-> FALSE, ctsize |-> size]

\* What check_dirlisting gives and what it did on the way: the bytes it
\* read, whether it built the BeautifulSoup tree, whether it ran the
\* regular expression of _check_html over the text.
DirProbe(kind, type, ver, exc, read, parsed, scanned) ==
    [kind |-> kind, type |-> type, ver |-> ver, exc |-> exc, read |-> read,
     parsed |-> parsed, scanned |-> scanned]

\* _check_html: the names RE_TARBALL_GROUP(prefix) finds in the text, and
\* tarball_maxver of them
check_html(prefix, origversion, found) ==
    tarball_maxver(found, prefix, origversion)

\* check_dirlisting past the headers: body is what the chunk loop read,
\* listed what tarball_maxver makes of the entries of parse_listing, scan
\* what _check_html finds in the text
DirlistingBody(prefix, try_html, body, entries, listed, scan) ==
    IF body.raised
    THEN DirProbe("raise", NULL, NULL, "ValueError", body.ctsize, FALSE, FALSE)
    ELSE IF body.ctsize > MAX_PARSED
    THEN IF scan.ver # NULL
         THEN DirProbe("release", "html", scan.ver, NULL, body.ctsize, FALSE, TRUE)
         ELSE DirProbe("none", NULL, NULL, NULL, body.ctsize, FALSE, TRUE)
    ELSE IF entries # <<>> /\ listed.ver # NULL
    THEN DirProbe("release", "dirlist", listed.ver, NULL, body.ctsize, TRUE, FALSE)
    ELSE IF ~try_html \/ prefix = NULL
    THEN DirProbe("none", NULL, NULL, NULL, body.ctsize, TRUE, FALSE)
    ELSE IF scan.ver # NULL
    THEN DirProbe("release", "html", scan.ver, NULL, body.ctsize, TRUE, TRUE)
    ELSE DirProbe("none", NULL, NULL, NULL, body.ctsize, TRUE, TRUE)

\* the entries parse_listing hands on: none when it raises
ListedEntries(req) == IF req.parse = "raise" THEN <<>> ELSE req.entries

\* check_dirlisting(package, origversion, url, prefix, try_html) on an
\* answer req: its status and headers, the size of its body, the entries
\* parse_listing gets from the body, or that it raises, and the names the
\* regular expression finds in it
check_dirlisting(origversion, prefix, try_html, req) ==
    IF req.status_code >= 400
    THEN DirProbe("raise", NULL, NULL, "HTTPError", 0, FALSE, FALSE)
    ELSE IF StartsWith(req.disposition, "attachment")
            \/ StartsWith(req.content_type, "application/")
    THEN DirProbe("none", NULL, NULL, NULL, 0, FALSE, FALSE)
    ELSE DirlistingBody(prefix, try_html, ReadBody(req.size), ListedEntries(req),
                        tarball_maxver(ListedEntries(req), prefix, origversion),
                        check_html(prefix, origversion, req.found))

BodySizes ==
    {100, CHUNK_SIZE, MAX_PARSED, MAX_PARSED + 1, 2 * MAX_PARSED,
     MAX_BODY, MAX_BODY + 1, MAX_BODY + CHUNK_SIZE + 1}

\* Pages: what the listing parser gets from one and what the regular
\* expression finds in its text (a name in the listing is also in the text).
Pages ==
    {[parse |-> "ok", entries |-> <<>>, found |-> <<>>],
     [parse |-> "ok", entries |-> <<>>, found |-> <<"foo-1.3.tar.gz">>],
     [parse |-> "ok", entries |-> <<"foo-1.2.tar.gz">>, found |-> <<"foo-1.2.tar.gz">>],
     [parse |-> "ok", entries |-> <<"foo-1.2.tar.gz">>,
      found |-> <<"foo-1.2.tar.gz", "foo-1.3.tar.gz">>],
     [parse |-> "ok", entries |-> <<"README">>, found |-> <<"foo-1.3.tar.gz">>],
     [parse |-> "raise", entries |-> <<>>, found |-> <<"foo-1.3.tar.gz">>]}

Answers ==
    {[status_code |-> s, disposition |-> d, content_type |-> c, size |-> n,
      parse |-> pg.parse, entries |-> pg.entries, found |-> pg.found] :
        s \in {200, 404},
        d \in {"", "attachment; filename=foo.tar.gz"},
        c \in {"text/html", "application/x-gzip"},
        n \in BodySizes, pg \in Pages}

CheckDirlisting ==
    /\ call.fn = "check_dirlisting"
    /\ ret = NoRet
    /\ ret' = check_dirlisting(call.origversion, call.prefix, call.try_html, call.req)
    /\ UNCHANGED call
    /\ UNCHANGED notFn

\* ================================================= legacy run_chores.py
\* src/run_chores.py with src/chores/feed.py: one FeedChore row in table
\* chore. A feed entry is its link (the number it was published under) and
\* its title.
MaxPublished == 3
FeedWindow == 2
MaxLegacyRuns == 3
LEGACY_TITLES == {"1.0 released", "1.1 released"}

\* the place of the first entry whose title is last_result, or one past the end
StopAt(entries, last_result) ==
    LET hits == {i \in DOMAIN entries : entries[i].title = last_result}
    IN IF hits = {} THEN Len(entries) + 1 ELSE Min(hits)

\* FeedChore.fetch: the entries it turns into messages and self.last_result
\* after it
FeedChoreFetch(entries, last_result) ==
    [messages |-> SubSeq(entries, 1, StopAt(entries, last_result) - 1),
     last_result |-> IF StopAt(entries, last_result) > 1 /\ entries # <<>>
                     THEN entries[1].title ELSE last_result]

\* how often the link is among the messages
Times(messages, link) == Cardinality({i \in DOMAIN messages : messages[i].link = link})

\* the site publishes an entry; the feed serves the FeedWindow newest
Publish(title) ==
    /\ published < MaxPublished
    /\ published' = published + 1
    /\ feed_entries' =
          LET all == <<[link |-> published + 1, title |-> title]>> \o feed_entries
          IN SubSeq(all, 1, IF Len(all) < FeedWindow THEN Len(all) ELSE FeedWindow)
    /\ UNCHANGED <<chore_row, event_rows, legacy_runs>>
    /\ UNCHANGED notLegacy

\* the site withdraws an entry
Withdraw(i) ==
    /\ i \in DOMAIN feed_entries
    /\ feed_entries' = SubSeq(feed_entries, 1, i - 1)
                       \o SubSeq(feed_entries, i + 1, Len(feed_entries))
    /\ UNCHANGED <<published, chore_row, event_rows, legacy_runs>>
    /\ UNCHANGED notLegacy

\* one run of run_chores.py in which fetch() returns: an Event row for each
\* message, the UPDATE of the chore row, session.commit()
RunChores ==
    /\ legacy_runs < MaxLegacyRuns
    /\ legacy_runs' = legacy_runs + 1
    /\ LET fetched == FeedChoreFetch(feed_entries, chore_row.last_result)
       IN /\ event_rows' = [i \in DOMAIN event_rows |->
                               event_rows[i] + Times(fetched.messages, i)]
          /\ chore_row' = [last_result |-> fetched.last_result]
    /\ UNCHANGED <<feed_entries, published>>
    /\ UNCHANGED notLegacy

\* one run in which fetch() raises: "except: ... continue", nothing is
\* added and the chore row is not updated
RunChoresFails ==
    /\ legacy_runs < MaxLegacyRuns
    /\ legacy_runs' = legacy_runs + 1
    /\ UNCHANGED <<feed_entries, published, chore_row, event_rows>>
    /\ UNCHANGED notLegacy

\* ======================================================== specifications
\* No invocation yet, on a fresh database.
SchedIdle ==
    /\ pkglist = Packages
    /\ clock = StartTime
    /\ pc = "idle"
    /\ runs = 0
    /\ exitcode = NULLINT
    /\ now = 0
    /\ delayed = {}
    /\ todo = {}
    /\ upstream_status = [p \in Packages |-> NoStatus]
    /\ package_upstream = [p \in Packages |-> NoRelease]
    /\ cur_status = [p \in Packages |-> NoStatus]
    /\ ev = [kind |-> "init", pkg |-> NULL, at |-> 0, res |-> NoResult]

ChoreIdle ==
    /\ chore = "feed"
    /\ title_regex = NULL
    /\ bb_category = "release"
    /\ status = STATUS_NONE
    /\ yielded = <<>>
    /\ cev = [chore |-> NULL, kind |-> "init", at |-> 0, last_updated |-> 0,
              entries |-> <<>>]

\* run_chores.py not run: the chore row as init.py leaves it, no event
LegacyIdle ==
    /\ feed_entries = <<>>
    /\ published = 0
    /\ chore_row = [last_result |-> ""]
    /\ event_rows = [i \in 1..MaxPublished |-> 0]
    /\ legacy_runs = 0

\* check_update not called, on an empty anitya_projects table
SyncQuiet ==
    /\ sync_pc = "idle"
    /\ sync_exc = NULL
    /\ total_items = NULLINT
    /\ got_items = NULLINT
    /\ page = NULLINT
    /\ retrys = NULLINT
    /\ anitya_projects = {}
    /\ requests = <<>>
    /\ abbs_packages = {}
    /\ anitya_link = {}
    /\ LegacyIdle

SyncIdle ==
    /\ server = [shape |-> "v2", total |-> 0, held |-> 0]
    /\ SyncQuiet

FnIdle ==
    /\ call = NoCall
    /\ ret = NoRet

VCIdle ==
    /\ arg_a = <<>>
    /\ arg_b = <<>>
    /\ results = <<>>
    /\ arg_c = <<>>
    /\ chain = <<>>

\* ---- the poll scheduler
Init ==
    /\ ChoreIdle
    /\ SyncIdle
    /\ VCIdle
    /\ FnIdle
    /\ pkglist \in {Packages, Packages \ {"gem"}}
    /\ clock = StartTime
    /\ pc = "idle"
    /\ runs = 0
    /\ exitcode = NULLINT
    /\ now = 0
    /\ delayed = {}
    /\ todo = {}
    /\ upstream_status = [p \in Packages |-> NoStatus]
    /\ package_upstream = [p \in Packages |-> NoRelease]
    /\ cur_status = [p \in Packages |-> NoStatus]
    /\ ev = [kind |-> "init", pkg |-> NULL, at |-> 0, res |-> NoResult]

Next ==
    \/ \E d \in (IF runs = 0 THEN {0} ELSE Gaps) : StartRun(d)
    \/ \E p \in Packages : Skip(p)
    \/ \E p \in Packages : CantDetect(p)
    \/ \E p \in Packages : DetectRaises(p)
    \/ \E p \in Packages, o \in Outcomes : Poll(p, o)
    \/ \E code \in {1, 130} : Interrupt(code)
    \/ \E c \in BOOLEAN : EndRun(c)

Spec == Init /\ [][Next]_vars

\* ---- one configured chore, polled repeatedly
InitChore ==
    /\ SchedIdle
    /\ SyncIdle
    /\ VCIdle
    /\ FnIdle
    /\ chore \in Chores
    /\ title_regex \in {NULL, "release"}
    /\ bb_category \in {"release", "tag"}
    /\ status = STATUS_NONE
    /\ yielded = <<>>
    /\ cev = [chore |-> NULL, kind |-> "init", at |-> 0, last_updated |-> 0,
              entries |-> <<>>]

NextChore ==
    \/ \E feed \in [etag : ETags \cup {NULL}, entries : SeqUpTo2(FeedItem)] :
          FeedFetch(feed)
    \/ \E req \in [status_code : StatusCodes, etag : ETags \cup {NULL},
                   values : SeqUpTo2([name : Names, time : EntryTimes])] :
          BitbucketFetch(req)
    \/ \E req \in HttpAnswers(TagTexts) : HTMLSelectorFetch(req)
    \/ \E req \in HttpAnswers(Listings) : DirListingFetch(req)

SpecChore == InitChore /\ [][NextChore]_vars

\* ---- version_compare on every pair of bounded strings
InitVC ==
    /\ SchedIdle
    /\ SyncIdle
    /\ ChoreIdle
    /\ FnIdle
    /\ arg_a \in VerInputs
    /\ arg_b \in VerInputs
    /\ results = <<>>
    /\ arg_c = <<>>
    /\ chain = <<>>

NextVC == Compare

SpecVC == InitVC /\ [][NextVC]_vars

\* ---- version_compare on chains of three bounded strings
InitChain ==
    /\ SchedIdle
    /\ SyncIdle
    /\ ChoreIdle
    /\ FnIdle
    /\ arg_a \in ChainStrings
    /\ arg_b = <<>>
    /\ results = <<>>
    /\ arg_c = <<>>
    /\ chain = <<>>

NextChain ==
    /\ chain = <<>>
    /\ \E b \in NotBefore[arg_a] : \E c \in NotBefore[b] : CompareChain(b, c)

SpecChain == InitChain /\ [][NextChain]_vars

\* ---- Release.__new__ on bounded package names and raw versions
InitRelease ==
    /\ SchedIdle
    /\ SyncIdle
    /\ ChoreIdle
    /\ VCIdle
    /\ call \in [fn : {"Release"}, package : {"f", "foo"}, version : RawVersions]
    /\ ret = NoRet

NextRelease == ReleaseNew

SpecRelease == InitRelease /\ [][NextRelease]_vars

\* ---- tarball_maxver on bounded listings
InitTarball ==
    /\ SchedIdle
    /\ SyncIdle
    /\ ChoreIdle
    /\ VCIdle
    /\ call \in [fn : {"tarball_maxver"}, tbllist : TarballLists,
                  name : {"foo", NULL}, origversion : {"1.2", NULL}]
    /\ ret = NoRet

NextTarball == TarballMaxver

SpecTarball == InitTarball /\ [][NextTarball]_vars

\* ---- remove_package_version on bounded paths
InitRPV ==
    /\ SchedIdle
    /\ SyncIdle
    /\ ChoreIdle
    /\ VCIdle
    /\ call \in [fn : {"remove_package_version"}, name : {"foo", "f"},
                  url : UrlPaths, version : {"1.2.3", "1.2"}]
    /\ ret = NoRet

NextRPV == RemovePackageVersion

SpecRPV == InitRPV /\ [][NextRPV]_vars

\* ---- detect_upstream on the bounded catalog of source URLs
InitDetect ==
    /\ SchedIdle
    /\ SyncIdle
    /\ ChoreIdle
    /\ VCIdle
    /\ call \in [fn : {"detect_upstream"}, name : {"foo", "curl"},
                  srctype : {"SRCTBL", "GITSRC"}, url : SourceUrls,
                  version : {NULL, "1.0", "7.88.1"}]
    /\ ret = NoRet

NextDetect == DetectUpstream

SpecDetect == InitDetect /\ [][NextDetect]_vars

\* ---- the Anitya sync against a v1 or a v2 endpoint
SERVER_TOTALS == {0, 1, 250, 251, 501}

InitSync ==
    /\ SchedIdle
    /\ ChoreIdle
    /\ VCIdle
    /\ FnIdle
    /\ \E shape \in {"v1", "v2"}, total \in SERVER_TOTALS :
           server = [shape |-> shape, total |-> total, held |-> total]
    /\ SyncQuiet

NextSync ==
    \/ CheckUpdate
    \/ RequestFails
    \/ StorePage
    \/ PayloadKeyError
    \/ CheckUpdateReturn

SpecSync == InitSync /\ [][NextSync]_vars

\* ---- the paging loop against an endpoint that holds fewer projects than
\* it announces (projects deleted while the pages are read, a count that
\* includes projects the listing leaves out)
InitPaging ==
    /\ SchedIdle
    /\ ChoreIdle
    /\ VCIdle
    /\ FnIdle
    /\ \E shape \in {"v1", "v2"}, total \in SERVER_TOTALS, held \in SERVER_TOTALS :
           /\ held <= total
           /\ server = [shape |-> shape, total |-> total, held |-> held]
    /\ SyncQuiet

\* StorePage as the counters of the loop see it: the rows it stores have no
\* part in whether the loop goes on
loopVars == <<total_items, got_items, page, requests>>
AnsweredTurn ==
    /\ sync_pc = "loop"
    /\ Looping
    /\ {"total_items", "items"} \subseteq DOMAIN Payload(page)
    /\ requests' = Asked(TRUE)
    /\ total_items' = Payload(page).total_items
    /\ got_items' = got_items + Len(Payload(page).items)
    /\ page' = NextPage

\* The process runs on: a turn of the loop that can be taken is taken. Whether
\* a request fails is up to the endpoint and the network.
SpecPaging ==
    /\ InitPaging
    /\ [][NextSync]_vars
    /\ WF_vars(CheckUpdate)
    /\ WF_loopVars(AnsweredTurn)
    /\ WF_vars(PayloadKeyError)
    /\ WF_vars(CheckUpdateReturn)

\* ---- detect_links on bounded tables
MaxProjects == 2
PROJECT_NAMES == {"foo.bar", "Foo-Bar", "github.com/foo_bar"}
BACKENDS == {"pypi", "npmjs", "Rubygems", "crates.io", "GitHub"}

InitLinks ==
    /\ SchedIdle
    /\ ChoreIdle
    /\ VCIdle
    /\ FnIdle
    /\ server = [shape |-> "v2", total |-> 0, held |-> 0]
    /\ sync_pc = "returned"
    /\ sync_exc = NULL
    /\ total_items = 0
    /\ got_items = 0
    /\ page = 2
    /\ retrys = 0
    /\ requests = <<[page |-> 1, ok |-> TRUE]>>
    /\ \E t \in [1..MaxProjects -> PROJECT_NAMES \X BACKENDS] :
          anitya_projects = {[id |-> i, name |-> t[i][1], backend |-> t[i][2],
                              version |-> NULL] : i \in 1..MaxProjects}
    /\ abbs_packages = {"foo.bar", "foo-bar", "foobar", "baz"}
    /\ anitya_link = {}
    /\ LegacyIdle

NextLinks == DetectLinks

SpecLinks == InitLinks /\ [][NextLinks]_vars

\* ---- human2bytes on bounded size strings
InitSize ==
    /\ SchedIdle
    /\ SyncIdle
    /\ ChoreIdle
    /\ VCIdle
    /\ call \in [fn : {"human2bytes"}, s : SizeStrings]
    /\ ret = NoRet

NextSize == Human2Bytes

SpecSize == InitSize /\ [][NextSize]_vars

\* ---- parse_listing on well-formed <pre> listings
InitListing ==
    /\ SchedIdle
    /\ SyncIdle
    /\ ChoreIdle
    /\ VCIdle
    /\ \E parent \in BOOLEAN, rows \in RowSeqs, style \in {"apache", "nginx"} :
           call = [fn |-> "parse_listing", parent |-> parent,
                   files |-> Len(rows),
                   pre |-> IF style = "apache" THEN ApacheListing(parent, rows)
                           ELSE NginxListing(parent, rows)]
    /\ ret = NoRet

NextListing == ParseListing

SpecListing == InitListing /\ [][NextListing]_vars

\* ---- tarball_maxver and tag_maxver on candidates of different shapes
InitMaxver ==
    /\ SchedIdle
    /\ SyncIdle
    /\ ChoreIdle
    /\ VCIdle
    /\ \/ call \in [fn : {"tarball_maxver"}, tbllist : ShapeLists(ShapeFiles),
                     name : {"foo"}, origversion : {"1.2.3", "2023", NULL}]
       \/ call \in [fn : {"tag_maxver"}, tbllist : ShapeLists(ShapeTags),
                     name : {"foo", NULL}, origversion : {"1.2.3", "2023", NULL}]
    /\ ret = NoRet

NextMaxver ==
    \/ TarballMaxver
    \/ TagMaxver

SpecMaxver == InitMaxver /\ [][NextMaxver]_vars

\* ---- check_dirlisting on answers of all sizes
InitDirlist ==
    /\ SchedIdle
    /\ SyncIdle
    /\ ChoreIdle
    /\ VCIdle
    /\ call \in [fn : {"check_dirlisting"}, origversion : {"1.0"},
                  prefix : {"foo", NULL}, try_html : BOOLEAN, req : Answers]
    /\ ret = NoRet

NextDirlist == CheckDirlisting

SpecDirlist == InitDirlist /\ [][NextDirlist]_vars

\* ---- successive runs of run_chores.py on one feed
InitLegacy ==
    /\ SchedIdle
    /\ SyncIdle
    /\ ChoreIdle
    /\ VCIdle
    /\ FnIdle

NextLegacy ==
    \/ \E title \in LEGACY_TITLES : Publish(title)
    \/ \E i \in 1..FeedWindow : Withdraw(i)
    \/ RunChores
    \/ RunChoresFails

SpecLegacy == InitLegacy /\ [][NextLegacy]_vars

\* ================================================================ claims
\* on check_updates (specification Spec)

ProbeKinds == {"release", "none", "raise"}

\* The step visits row p of pkglist.
Visited(p) == pc = "loop" /\ p \in todo /\ p \notin todo'
\* The step runs p's probe (the try block).
Probed(p) == Visited(p) /\ ev'.pkg = p /\ ev'.kind \in ProbeKinds
\* The step passes p over ("continue" on the first test of the loop).
Skipped(p) == Visited(p) /\ ev'.pkg = p /\ ev'.kind = "skip"

Succeeded(row) == row.present /\ row.err = NULL /\ row.last_try # NULLINT
Failed(row) ==
    /\ row.present /\ row.last_try # NULLINT
    /\ (row.err = "not found" \/ LikeHTTPError(row.err))

\* C1 as stated: a package whose last attempt succeeded at last_try = t is not
\* probed by any run whose start time satisfies now <= t + 7200.
C1_NotProbedUpTo7200 ==
    [][\A p \in Packages :
          (pc = "loop" /\ p \in todo /\ Succeeded(upstream_status[p])
             /\ now <= upstream_status[p].last_try + RETRY_OK)
          => ~Probed(p)]_vars

\* C1 amended: a package whose last attempt succeeded at last_try = t is not
\* probed by any run whose start time satisfies now < t + 7200, and a run with
\* now >= t + 7200 does not pass it over.
C1_NotProbedBefore7200 ==
    [][\A p \in Packages :
          (pc = "loop" /\ p \in todo /\ Succeeded(upstream_status[p]))
          => /\ now < upstream_status[p].last_try + RETRY_OK => ~Probed(p)
             /\ now >= upstream_status[p].last_try + RETRY_OK => ~Skipped(p)]_vars

C1_Witness ==
    /\ ev.kind = "skip"
    /\ Succeeded(upstream_status[ev.pkg])
    /\ now = upstream_status[ev.pkg].last_try + RETRY_OK - 1

\* C2: a package whose last attempt failed with 'not found' or an HTTPError is
\* passed over while now < last_try + 3*86400 and is not passed over once that
\* time has passed.
C2_FailureBackoff ==
    [][\A p \in Packages :
          (pc = "loop" /\ p \in todo /\ Failed(upstream_status[p]))
          => /\ now < upstream_status[p].last_try + RETRY_FAIL => ~Probed(p)
             /\ now >= upstream_status[p].last_try + RETRY_FAIL => ~Skipped(p)]_vars

C2_Witness ==
    /\ ev.kind = "skip"
    /\ upstream_status[ev.pkg].present
    /\ upstream_status[ev.pkg].err = "not found"
    /\ now = upstream_status[ev.pkg].last_try + 2 * 86400

\* C3: a failed poll (the probe raises or finds no release) leaves a non-null
\* err, and leaves upstream_status.updated and the package_upstream row as
\* they were.
C3_FailureKeepsRelease ==
    [][\A p \in Packages :
          (Probed(p) /\ ev'.kind \in {"none", "raise"})
          => /\ upstream_status'[p].present
             /\ upstream_status'[p].err # NULL
             /\ upstream_status'[p].updated = upstream_status[p].updated
             /\ package_upstream'[p] = package_upstream[p]]_vars

C3_Witness ==
    /\ ev.kind \in {"none", "raise"}
    /\ package_upstream[ev.pkg].present
    /\ upstream_status[ev.pkg].err # NULL
    /\ upstream_status[ev.pkg].updated # NULLINT
    /\ upstream_status[ev.pkg].updated < upstream_status[ev.pkg].last_try

\* C4: a probe that raises is recorded as err = '<ExceptionName>: <msg>' and
\* the loop goes on: the run is not left, every row that leaves the worklist
\* with a source type and not delayed has been attempted, and the loop ends
\* normally only with the worklist empty.
C4_ProbeFailureDoesNotAbort ==
    [][/\ \A p \in Packages :
            (Probed(p) /\ ev'.kind = "raise")
            => /\ upstream_status'[p].err
                    = ev'.res.ex.name \o ": " \o ev'.res.ex.msg
               /\ pc' = "loop"
               /\ todo' = todo \ {p}
       /\ \A p \in Packages :
            (Visited(p) /\ Catalog[p].srctype # NULL /\ p \notin delayed)
            => ev'.pkg = p /\ ev'.kind \in ProbeKinds \cup {"cantdetect"}
       /\ (pc = "loop" /\ ev'.kind = "end") => todo = {}]_vars

C4_Witness ==
    /\ ev.kind \in ProbeKinds
    /\ \E q \in Packages \ {ev.pkg} :
          /\ q \notin todo
          /\ upstream_status[q].present
          /\ upstream_status[q].last_try = now
          /\ upstream_status[q].err = "ValueError: Response too large"

\* C5 as stated: when detect_upstream returns None for a package with a
\* source type, after the run its row has last_try = the attempt time and
\* err = "can't detect upstream".
C5_CantDetectRecorded ==
    (pc = "exited" /\ ev.kind = "end")
    => \A p \in Packages :
          (Catalog[p].srctype # NULL /\ p \notin delayed
             /\ detect_upstream(p) = "None")
          => /\ upstream_status[p].present
             /\ upstream_status[p].last_try = now
             /\ upstream_status[p].err = "can't detect upstream"

\* C6: a probe that returns no release leaves last_try = attempt time and
\* err = 'not found'; one that returns a release leaves err NULL and
\* updated = last_try = attempt time.
C6_StatusAfterProbe ==
    /\ ev.kind = "none"
       => /\ upstream_status[ev.pkg].present
          /\ upstream_status[ev.pkg].last_try = ev.at
          /\ upstream_status[ev.pkg].err = "not found"
    /\ ev.kind = "release"
       => /\ upstream_status[ev.pkg].present
          /\ upstream_status[ev.pkg].err = NULL
          /\ upstream_status[ev.pkg].updated = ev.at
          /\ upstream_status[ev.pkg].last_try = ev.at

C6_Witness ==
    /\ ev.kind = "release"
    /\ runs = 2
    /\ upstream_status[ev.pkg].updated = ev.at
    /\ package_upstream[ev.pkg].version = ev.res.version

\* C7 as stated: an interrupted run keeps what it committed and the process
\* exits with code 0.
C7_InterruptExitsZero ==
    ev.kind = "interrupt" => (pc = "exited" /\ exitcode = 0)

\* on the chores (specification SpecChore)

\* C8: for the bitbucket, html and dirlist chores a poll answered 304 yields
\* no events, sets status.updated to the fetch time and leaves last_result
\* (the stored ETag and entries) as it was.
C8_NotModified ==
    [][(cev'.kind = "304" /\ clock' # clock)
       => /\ chore \in {"bitbucket", "html", "dirlist"}
          /\ yielded' = <<>>
          /\ status'.updated = clock'
          /\ status'.updated = cev'.at
          /\ status'.last_result = status.last_result]_vars

C8_Witness ==
    /\ cev.kind = "304"
    /\ chore = "dirlist"
    /\ yielded = <<>>
    /\ GetEntries(load(status)) # <<>>
    /\ Get(load(status), "etag") \in ETags
    /\ status.updated = cev.at

\* The entries of the last feed that fetch() takes as new, by position.
FeedNew(strict) ==
    {i \in DOMAIN cev.entries :
        /\ cev.entries[i].time > cev.last_updated
        /\ strict => cev.last_updated # 0
        /\ strict => (title_regex = NULL \/ Search(title_regex, cev.entries[i].title))}

\* yielded holds exactly one Event for each position of `new`, in feed order.
YieldsExactly(new) ==
    /\ Len(yielded) = Cardinality(new)
    /\ \A k \in DOMAIN yielded :
          \E i \in new :
             /\ Cardinality({j \in new : j < i}) = k - 1
             /\ yielded[k].time = cev.entries[i].time
             /\ yielded[k].title = cev.entries[i].title

\* C9 as stated: FeedChore.fetch yields one Event for every entry whose
\* updated time is greater than status.updated before the fetch and none for
\* older entries, whatever the prior status; afterwards status.updated is the
\* fetch time.
C9_EveryNewerEntry ==
    (chore = "feed" /\ cev.kind = "parsed")
    => YieldsExactly(FeedNew(FALSE)) /\ status.updated = cev.at

\* C9 amended: FeedChore.fetch of a chore that was polled before
\* (status.updated # 0) yields one Event for every entry whose updated time
\* is greater than status.updated before the fetch and whose title matches
\* title_regex when one is set, and none for the other entries; a chore that
\* was never polled yields nothing; afterwards status.updated is the fetch time.
C9_NewerEntriesAfterFirstPoll ==
    (chore = "feed" /\ cev.kind = "parsed")
    => YieldsExactly(FeedNew(TRUE)) /\ status.updated = cev.at

C9_Witness ==
    /\ chore = "feed" /\ cev.kind = "parsed"
    /\ cev.last_updated # 0
    /\ Len(cev.entries) = 2
    /\ Len(yielded) = 1
    /\ cev.entries[1].time <= cev.last_updated
    /\ yielded[1].time = cev.entries[2].time

\* on version_compare (specification SpecVC)

\* C10: version_compare(a, a) = 0 and version_compare(a, b) = -version_compare(b, a).
C10_ReflexiveAntisymmetric ==
    results # <<>> => (results[3] = 0 /\ results[1] = -results[2])

C10_Witness ==
    /\ results # <<>>
    /\ arg_a = <<"1", "~">>
    /\ arg_b = <<"1">>
    /\ results[1] = -1
    /\ results[2] = 1

\* C11: version_compare is transitive: version_compare(a, b) <= 0 and
\* version_compare(b, c) <= 0 imply version_compare(a, c) <= 0.
C11_Transitive ==
    chain # <<>> => ((chain[1] <= 0 /\ chain[2] <= 0) => chain[3] <= 0)

\* a tilde, a leading zero and a letter: 0~ <= 00 <= 0a
C11_Witness ==
    /\ chain = <<-1, -1, -1>>
    /\ arg_a = <<"0", "~">>
    /\ arg_b = <<"0", "0">>
    /\ arg_c = <<"0", "a">>

IsDigits(v) == v # <<>> /\ \A i \in DOMAIN v : v[i] \in Digits

\* C12: a tilde suffix sorts before the bare version, digit runs compare as
\* integers, a version sorts before the same version with a -N revision:
\* version_compare("1.0~rc1", "1.0") = -1, version_compare("1.10", "1.2") = 1,
\* version_compare("1.0", "1.0-1") = -1.
C12_TildeDigitsRevision ==
    results # <<>> =>
       /\ (arg_a = <<"1", ".", "0", "~", "r", "c", "1">> /\ arg_b = <<"1", ".", "0">>)
             => results[1] = -1
       /\ (arg_a = <<"1", ".", "1", "0">> /\ arg_b = <<"1", ".", "2">>)
             => results[1] = 1
       /\ (arg_a = <<"1", ".", "0">> /\ arg_b = <<"1", ".", "0", "-", "1">>)
             => results[1] = -1
       /\ (Len(arg_a) > Len(arg_b) /\ SubSeq(arg_a, 1, Len(arg_b)) = arg_b
              /\ arg_a[Len(arg_b) + 1] = "~")
             => results[1] = -1
       /\ (IsDigits(arg_a) /\ IsDigits(arg_b) /\ int(arg_a) # int(arg_b))
             => results[1] = cmp(int(arg_a), int(arg_b))

C12_Witness ==
    /\ results # <<>>
    /\ arg_a = <<"1", ".", "1", "0">>
    /\ arg_b = <<"1", ".", "2">>
    /\ results[1] = 1

\* C13 as stated: Release normalization is idempotent: building a Release
\* from the version of Release(package, ..., v) gives the same version again.
C13_NormalizeIdempotent ==
    (call.fn = "Release" /\ ret # NoRet) => ret.twice = ret.once

\* on tarball_maxver (specification SpecTarball)

\* A file name carries an OS/arch marker: one of . _ + - followed by one of
\* the marker words, "win" counting when it ends at a word boundary.
CarriesMarker(f) ==
    \E i \in 1..Len(f) :
       /\ CharAt(f, i) \in {".", "_", "+", "-"}
       /\ \/ \E w \in BINARY_WORDS : BACKSPACE \notin {w[k] : k \in DOMAIN w}
                                        /\ PatAt(f, i + 1, w)
          \/ /\ PatAt(f, i + 1, Chars("win"))
             /\ CharAt(f, i + 4) \notin Letters \cup Digits \cup {"_"}

\* The versions of the source tarballs of a listing: the files whose name
\* starts with the package name, carry no marker and match RE_TARBALL.
SourceVersions(tbllist, name) ==
    {RE_TARBALL_match(tbllist[i]).ver :
        i \in {j \in DOMAIN tbllist :
                 /\ name # NULL
                 /\ StartsWith(Lower(tbllist[j]), Lower(name))
                 /\ ~CarriesMarker(tbllist[j])
                 /\ RE_TARBALL_match(tbllist[j]).matched}}

\* C14 as stated: tarball_maxver never selects a file whose name carries an
\* OS/arch binary marker, and among the remaining source tarballs whose name
\* starts with the package name it returns the highest version under
\* version_compare.
C14_NoBinaryHighestVersion ==
    (call.fn = "tarball_maxver" /\ ret # NoRet) =>
       LET versions == SourceVersions(call.tbllist, call.name)
       IN /\ ret.file # NULL => ~CarriesMarker(ret.file)
          /\ versions = {} => ret.ver = NULL
          /\ versions # {} =>
                /\ ret.ver \in versions
                /\ \A v \in versions :
                      version_compare(Chars(ret.ver), Chars(v)) >= 0

\* on remove_package_version (specification SpecRPV)
\* C15: for every package name, URL path and version, the path that
\* remove_package_version returns begins with "/" and ends with "/".
C15_SlashAtBothEnds ==
    ret.kind = "path" => StartsWith(ret.path, "/") /\ EndsWith(ret.path, "/")

\* a path cut at its version directory: /pub/foo-1.2.3/foo gives /pub/
C15_Witness ==
    /\ call.fn = "remove_package_version"
    /\ call.url = "/pub/foo-1.2.3/foo"
    /\ call.version = "1.2.3"
    /\ ret = [kind |-> "path", path |-> "/pub/"]

\* on detect_upstream (specification SpecDetect)
Classified == call.fn = "detect_upstream" /\ ret # NoRet

\* C16 as stated: every URL whose host is github.com, whatever its path, is
\* classified as github with a repo of the form <owner>/<repo>, without ".git".
C16_GithubHostAnyPath ==
    Classified /\ ~urlparse_raises(call.url)
               /\ hostname(urlparse(call.url)) = "github.com" =>
        /\ ret.kind = "upstream"
        /\ ret.type = "github"
        /\ LET parts == Split(ret.fields[1], "/")
           IN /\ Len(parts) = 2
              /\ parts[1] # ""
              /\ parts[2] # ""
              /\ ~EndsWith(ret.fields[1], ".git")

\* C16: the first matching rule decides. Every URL whose network location
\* is exactly github.com is classified as github, whatever its scheme, source
\* kind, query or the later rules it also matches, and when its path has an
\* owner and a repository segment the repo is <owner>/<repo> with a trailing
\* ".git" removed.
C16_GithubFirst ==
    Classified /\ urlparse(call.url).netloc = "github.com" =>
        /\ ret.kind = "upstream"
        /\ ret.type = "github"
        /\ Len(ret.fields) = 1
        /\ LET segs == Split(LStrip(urlparse(call.url).path, {"/"}), "/")
           IN Len(segs) >= 2 /\ segs[1] # "" /\ segs[2] # "" =>
                ret.fields[1] = segs[1] \o "/" \o
                    (IF EndsWith(segs[2], ".git")
                     THEN Take(segs[2], Len(segs[2]) - 4)
                     ELSE segs[2])

\* the documented example: a tarball URL on github.com, which the http(s)
\* rule would match as well
C16_Witness ==
    /\ call = [fn |-> "detect_upstream", name |-> "foo", srctype |-> "SRCTBL",
               url |-> "https://github.com/org/foo/archive/v1.0.tar.gz",
               version |-> "1.0"]
    /\ ret = Upstream("github", <<"org/foo">>)

\* C17 as stated: for an http(s) URL of a tarball, of source kind SRCTBL, that
\* falls through to the last rule, the descriptor is a dirlist whose URL ends
\* with "/", has no query and no fragment, and whose prefix is the prefix of
\* the tarball's name.
C17_TarballDirlist ==
    LET urlp == urlparse(call.url)
        tarball == RE_TARBALL_match(Last(Split(urlp.path, "/")))
    IN /\ Classified
       /\ call.srctype = "SRCTBL"
       /\ urlp.scheme \in {"http", "https"}
       /\ tarball.matched
       /\ ret.kind = "upstream"
       /\ ret.type = "dirlist"
       => /\ EndsWith(ret.fields[1], "/")
          /\ ~Contains(ret.fields[1], "?")
          /\ ~Contains(ret.fields[1], "#")
          /\ ret.fields[2] = tarball.prefix

\* C18 as stated: detect_upstream returns a descriptor or None, and never
\* raises.
C18_NeverRaises ==
    Classified => ret.kind \in {"upstream", "None"}

\* on anitya.check_update (specification SpecSync)
FailedRequests == {i \in DOMAIN requests : ~requests[i].ok}
AnsweredPages == {requests[i].page : i \in DOMAIN requests \ FailedRequests}
PagesStored(pages) ==
    UNION {{ProjectRow(PageItems(p)[k]) : k \in DOMAIN PageItems(p)} : p \in pages}

\* C19: a failed page request is followed by a request for the same page,
\* no more than 5 requests fail, and once 5 have failed check_update issues
\* no further request and returns with the pages stored so far in the table.
C19_RetryThenGiveUp ==
    /\ [](/\ \A i \in DOMAIN requests :
                i < Len(requests) /\ ~requests[i].ok =>
                    requests[i + 1].page = requests[i].page
          /\ Cardinality(FailedRequests) <= 5
          /\ server.shape = "v2" => anitya_projects = PagesStored(AnsweredPages))
    /\ [][Cardinality(FailedRequests) = 5 =>
            /\ requests' = requests
            /\ anitya_projects' = anitya_projects
            /\ sync_pc' = "returned"]_vars

\* page 1 stored, then five failed requests for page 2, and the return
C19_Witness ==
    /\ sync_pc = "returned"
    /\ Len(requests) = 6
    /\ requests[1] = [page |-> 1, ok |-> TRUE]
    /\ \A i \in 2..6 : requests[i] = [page |-> 2, ok |-> FALSE]
    /\ Cardinality(anitya_projects) = ITEMS_PER_PAGE

\* C20 as stated: when the endpoint answers with a v1 payload (projects, no
\* items or total_items), check_update stores the projects of the payload
\* and does not fail.
C20_V1Fallback ==
    server.shape = "v1" /\ AnsweredPages # {} =>
        /\ sync_pc # "raised"
        /\ PagesStored(AnsweredPages) \subseteq anitya_projects

\* on anitya.detect_links (specification SpecLinks)
\* the collapsed name: lower case, without ".", " ", "-" and "_"; for a
\* project, without a leading "<host>/" as well
Collapsed(name) == RemoveChars(Lower(name), {".", " ", "-", "_"})
CollapsedProject(name) ==
    Collapsed(IF Find(name, "/", 1) > 1 THEN Drop(name, Find(name, "/", 1)) ELSE name)

\* C21 as stated: after detect_links every package whose collapsed name is
\* the collapsed name of some project has an anitya_link row, and every
\* anitya_link row joins a package and a project of equal collapsed names.
C21_LinkedIffCollapsedEqual ==
    sync_pc = "linked" =>
        /\ \A p \in abbs_packages :
              (\E r \in anitya_projects : CollapsedProject(r.name) = Collapsed(p))
              => \E l \in anitya_link : l.package = p
        /\ \A l \in anitya_link :
              \E r \in anitya_projects :
                  /\ r.id = l.projectid
                  /\ CollapsedProject(r.name) = Collapsed(l.package)

\* the projects a package can be linked to
Candidates(p) == {r \in anitya_projects : ProjectIndex(r.name) = PackageIndex(p)}
LinkedProject(l) == CHOOSE r \in anitya_projects : r.id = l.projectid

\* the priority of the statement: PyPI, npm, rubygems, maven, crates.io, others
ListedRank(backend) ==
    CASE Ecosystem(backend) = "PyPI" -> 1
      [] Ecosystem(backend) = "npm" -> 2
      [] Ecosystem(backend) = "rubygems" -> 3
      [] Ecosystem(backend) = "maven" -> 4
      [] Ecosystem(backend) = "crates.io" -> 5
      [] OTHER -> 6

\* C22 as stated: a package is linked to the candidate of the best priority
\* in the order PyPI > npm > rubygems > maven > crates.io > others, and among
\* candidates of equal priority to the one with the smallest id.
C22_ListedPriority ==
    sync_pc = "linked" =>
        \A l \in anitya_link :
            \A o \in Candidates(l.package) :
                \/ ListedRank(LinkedProject(l).backend) < ListedRank(o.backend)
                \/ /\ ListedRank(LinkedProject(l).backend) = ListedRank(o.backend)
                   /\ l.projectid <= o.id

\* the order of the ecosystem labels as strings: none, PyPI, crates.io,
\* maven, npm, rubygems
LabelRank(backend) ==
    CASE Ecosystem(backend) = "" -> 0
      [] Ecosystem(backend) = "PyPI" -> 1
      [] Ecosystem(backend) = "crates.io" -> 2
      [] Ecosystem(backend) = "maven" -> 3
      [] Ecosystem(backend) = "npm" -> 4
      [] Ecosystem(backend) = "rubygems" -> 5

\* the projects that have the least label among the projects of their name
LeastOfName(r) ==
    \A o \in anitya_projects : o.name = r.name => LabelRank(r.backend) <= LabelRank(o.backend)

\* C22: among the projects of one exact name only those with the least
\* ecosystem label in string order (none < PyPI < crates.io < maven < npm <
\* rubygems) stay candidates, and a package is linked to the candidate with
\* the smallest id among those of its name_index.
C22_LeastLabelThenSmallestId ==
    sync_pc = "linked" =>
        \A l \in anitya_link :
            /\ LinkedProject(l) \in Candidates(l.package)
            /\ LeastOfName(LinkedProject(l))
            /\ \A o \in Candidates(l.package) : LeastOfName(o) => l.projectid <= o.id

\* foo.bar is known to PyPI as project 1 and to GitHub as project 2: the
\* package foobar is linked to project 2
C22_Witness ==
    /\ sync_pc = "linked"
    /\ \E r \in anitya_projects : r.id = 1 /\ r.name = "foo.bar" /\ r.backend = "pypi"
    /\ \E r \in anitya_projects : r.id = 2 /\ r.name = "foo.bar" /\ r.backend = "GitHub"
    /\ [package |-> "foobar", projectid |-> 2] \in anitya_link

\* ---- C24
\* a number followed by one letter of SYMBOLS
IsSized(s) ==
    /\ s # NULL
    /\ ~IsInt(s)
    /\ IsFloat(Take(s, Len(s) - 1))
    /\ Contains(SYMBOLS, UpperChar(CharAt(s, Len(s))))

\* C24: human2bytes gives the integer for an integer string, the number times
\* 1024^k for a number followed by the k-th letter of 'BKMGTPEZY' ('1M' is
\* 1048576, '1G' is 1073741824), and None, never an exception, for every
\* other size string.
C24_InvalidGivesNone ==
    (call.fn = "human2bytes" /\ ret # NoRet) =>
        /\ call.s = "1M" => ret = IntValue(1048576)
        /\ call.s = "1G" => ret = IntValue(1073741824)
        /\ (call.s # NULL /\ IsInt(call.s)) => ret.kind = "int"
        /\ IsSized(call.s) => ret.kind = "int"
        /\ (call.s = NULL \/ (~IsInt(call.s) /\ ~IsSized(call.s))) => ret = NoneValue

\* ---- C23
\* C23: parse_listing of a well-formed <pre> listing of N files, with or
\* without a link to the parent directory, gives at least N entries, each
\* with a name.
C23_AtLeastNEntries ==
    (call.fn = "parse_listing" /\ ret # NoRet) =>
        /\ ret.kind = "listing"
        /\ Len(ret.listing) >= call.files
        /\ \A i \in DOMAIN ret.listing : ret.listing[i].name # NULL

\* with a link to the parent directory the listing is complete
C23_CompleteWithParent ==
    (call.fn = "parse_listing" /\ ret # NoRet /\ call.parent) =>
        /\ ret.kind = "listing"
        /\ Len(ret.listing) = call.files
        /\ \A i \in DOMAIN ret.listing : ret.listing[i].name # NULL

\* without one, the first file is lost
C23_FirstLostWithoutParent ==
    (call.fn = "parse_listing" /\ ret # NoRet /\ ~call.parent /\ call.files > 0) =>
        /\ ret.kind = "listing"
        /\ Len(ret.listing) = call.files - 1

\* ---- C25
\* the row REPLACE INTO package_upstream leaves for the release of event e
RowOfPoll(e) ==
    [present |-> TRUE, type |-> detect_upstream(e.pkg), version |-> e.res.version]

C26_EventOnlyOnChange ==
    [][(chore = "html" /\ cev' # cev) =>
          LET old_entries == GetEntries(load(status))
          IN /\ Len(yielded') <= 1
             /\ yielded' # <<>> =>
                    /\ cev'.kind = "parsed"
                    /\ old_entries # <<>>
                    /\ cev'.entries # old_entries
             /\ (cev'.kind = "parsed" /\ old_entries # <<>>
                 /\ cev'.entries # old_entries) => Len(yielded') = 1
             /\ cev'.kind = "parsed" =>
                    /\ cev'.entries # <<>>
                    /\ GetEntries(load(status')) = cev'.entries
             /\ (cev.kind = "parsed" /\ cev'.kind = "parsed"
                 /\ cev'.entries = cev.entries) => yielded' = <<>>]_vars

\* the page changed between two polls and the second poll yielded its Event
C26_Witness ==
    /\ chore = "html"
    /\ cev.kind = "parsed"
    /\ cev.last_updated # 0
    /\ Len(yielded) = 1
    /\ GetEntries(load(status)) = <<Str("v2"), Str("v1")>>

\* ---- C27
\* the candidates of the call: for each kept file or tag its key
ShapeKey(x) ==
    IF call.fn = "tarball_maxver"
    THEN [pfxmatch |-> RE_TARBALL_match(x).prefix = call.name,
          vermatch |-> verfmt_match(version_format(call.origversion),
                                    RE_TARBALL_match(x).ver),
          ver |-> RE_TARBALL_match(x).ver]
    ELSE [pfxmatch |-> TRUE,
          vermatch |-> verfmt_match(version_format(call.origversion),
                                    VerPrefixSub(TagPrefixSub(call.name, x))),
          ver |-> VerPrefixSub(TagPrefixSub(call.name, x))]

ShapeCandidates ==
    {call.tbllist[i] : i \in
        {j \in DOMAIN call.tbllist :
            IF call.fn = "tarball_maxver"
            THEN /\ StartsWith(Lower(call.tbllist[j]), Lower(call.name))
                 /\ ~RE_BINARY_search(call.tbllist[j])
                 /\ RE_TARBALL_match(call.tbllist[j]).matched
            ELSE RE_VERSION_match(VerPrefixSub(TagPrefixSub(call.name, call.tbllist[j])))}}

\* C27: in tarball_maxver and tag_maxver a candidate whose version has the
\* format of the current version wins over every candidate whose version
\* has not (for tarballs among those with the same prefix match), whatever
\* version_compare says of the two: with current version 1.2.3, 1.2.4 is
\* chosen over 20240101.
C27_ShapeMatchWins ==
    (call.fn \in {"tarball_maxver", "tag_maxver"} /\ ret # NoRet
     /\ ret.kind = "maxver") =>
        /\ ret.ver = NULL <=> ShapeCandidates = {}
        /\ ret.ver # NULL =>
              /\ ret.file \in ShapeCandidates
              /\ ret.ver = ShapeKey(ret.file).ver
              /\ \A x \in ShapeCandidates :
                    (ShapeKey(x).pfxmatch = ShapeKey(ret.file).pfxmatch
                     /\ ShapeKey(x).vermatch) => ShapeKey(ret.file).vermatch
        /\ (call.origversion = "1.2.3"
            /\ {ShapeKey(x).ver : x \in ShapeCandidates} = {"1.2.4", "20240101"})
              => ret.ver = "1.2.4"

\* 20240101 is the greater version and comes first, 1.2.4 is chosen
C27_Witness ==
    /\ call.fn = "tarball_maxver"
    /\ call.origversion = "1.2.3"
    /\ call.tbllist = <<"foo-20240101.tar.gz", "foo-1.2.4.tar.gz">>
    /\ version_compare(Chars("20240101"), Chars("1.2.4")) > 0
    /\ ret = [kind |-> "maxver", ver |-> "1.2.4", file |-> "foo-1.2.4.tar.gz"]

\* ---- C28
\* C28: check_dirlisting never parses or scans a body of more than 50 MiB:
\* it raises and returns no release; a body of more than 1 MiB and at most
\* 50 MiB is never given to the HTML parser, only to the regular expression.
C28_BodyLimits ==
    (call.fn = "check_dirlisting" /\ ret # NoRet /\ ret.read > 0) =>
        /\ call.req.size > MAX_BODY =>
              /\ ret.kind = "raise" /\ ret.exc = "ValueError"
              /\ ~ret.parsed /\ ~ret.scanned
              /\ ret.ver = NULL
        /\ (call.req.size > MAX_PARSED /\ call.req.size <= MAX_BODY) =>
              /\ ~ret.parsed /\ ret.scanned
              /\ ret.kind # "raise"
              /\ ret.type # "dirlist"
        /\ ret.read <= MAX_BODY + CHUNK_SIZE

\* a body of 2 MiB whose release the regular expression found
C28_Witness ==
    /\ call.fn = "check_dirlisting"
    /\ call.req.size = 2 * MAX_PARSED
    /\ call.req.entries = <<"foo-1.2.tar.gz">>
    /\ call.req.found = <<"foo-1.2.tar.gz", "foo-1.3.tar.gz">>
    /\ ret # NoRet
    /\ ret.kind = "release" /\ ret.type = "html" /\ ret.ver = "1.3"
    /\ ~ret.parsed

\* ---- C29
\* C29: the paging loop of check_update ends for every sequence of answers
\* of the endpoint: failed requests, pages with fewer projects than
\* total_items announces, empty pages.
C29_LoopEnds == <>(sync_pc \in {"returned", "raised"})

\* an endpoint that holds what it announces is read to the end
C29_HonestLoopEnds == (server.held = server.total) => <>(sync_pc \in {"returned", "raised"})

\* ---- C30
\* C30: over successive runs of the legacy FeedChore no feed entry becomes
\* an event twice: a fetch returns only the entries before the entry whose
\* title the last successful fetch recorded as last_result, and records the
\* title of the first entry of the feed as the new last_result.
C30_NoEntryTwice ==
    /\ [](\A i \in DOMAIN event_rows : event_rows[i] <= 1)
    /\ [][(legacy_runs' # legacy_runs /\ event_rows' # event_rows) =>
            /\ \A k \in DOMAIN feed_entries :
                  event_rows'[feed_entries[k].link] # event_rows[feed_entries[k].link]
                     => \A j \in 1..k : feed_entries[j].title # chore_row.last_result
            /\ chore_row'.last_result = feed_entries[1].title]_vars

\* a run that adds events adds them only for entries before the first
\* entry titled as the recorded last_result, and records the first title
C30_FetchStopsAtRecorded ==
    [][(legacy_runs' # legacy_runs /\ event_rows' # event_rows) =>
          /\ \A k \in DOMAIN feed_entries :
                event_rows'[feed_entries[k].link] # event_rows[feed_entries[k].link]
                   => \A j \in 1..k : feed_entries[j].title # chore_row.last_result
          /\ chore_row'.last_result = feed_entries[1].title]_vars

\* an entry of the feed that became an event becomes one again in a later run
C30_EntryTwice == \E i \in DOMAIN event_rows : event_rows[i] = 2
====
